---- MODULE Spec2Model ----
(***************************************************************************)
(* Batch record reconciliation engine of lambda_clients (app/db_utils.py) *)
(* and the request handlers in front of it (app/lambda_function.py).       *)
(*                                                                         *)
(* The store is the "clientes" table seen through the request's cursor.    *)
(* A call hands one batch to validate_and_process_client_data (the         *)
(* processing path) or to validate_data (the validation path), directly or *)
(* through lambda_handler (POST /clientes, POST /clientes/validaciones);   *)
(* the whole call is one step.  A statement sent to the database either    *)
(* executes or raises; which one is chosen freely for every statement.     *)
(* PageSpec applies get_paginated_data to query parameters and to the      *)
(* count the database answers, for GET /clientes and for the history of a  *)
(* client; ItemSpec applies the validators of one row to single rows.      *)
(***************************************************************************)
EXTENDS Integers, Sequences, FiniteSets, TLC

VARIABLES
    store,        \* the clientes table: a multiset of rows
    pc,           \* "idle" between requests, "done" when a call has ended
    op,           \* "none", "process" (validate_and_process_client_data), "validate" (validate_data),
                  \* "post_clientes", "post_validaciones", "patch_contactabilidad",
                  \* "no_cursor", "get", "get_historial" (lambda_handler) or
                  \* "item" (the validators of one row)
    data,         \* the batch handed to the call
    storeBefore,  \* the table as it was when the batch arrived
    result,       \* what the call returned, or that it raised
    stmts,        \* the statements the call sent through cursor.execute, in order
    prevInserted, \* identifiers the previous processing call inserted and left stored
    response,     \* what lambda_handler returned: statusCode and body
    conn,         \* the calls made on the connection and its cursor, in order
    body,        \* the parsed body of the request lambda_handler was given
    the_item,     \* the row handed to the validators of one row
    checked,      \* what each validator of one row answered for it
    event,        \* the query string and the path of a GET as they were sent
    query_params, \* the query parameters handed to get_paginated_data
    paged         \* what get_paginated_data returned, with the queries it sent

vars == <<store, pc, op, data, storeBefore, result, stmts, prevInserted,
          response, conn, body, the_item, checked, event, query_params, paged>>

----------------------------------------------------------------------------
(* Bounds *)

MaxBatch == 2        \* longest batch
MaxRows == 2         \* most rows the table holds
MaxRecords == 21     \* most rows a count query of get_paginated_data counts
MaxFields == 2       \* most items of the object a PATCH is sent
MaxAffected == 2     \* highest rowcount the UPDATE of a PATCH answers

----------------------------------------------------------------------------
(* Python values: a str is its sequence of characters, None is Null.  A    *)
(* dict is a function; a key that is absent is not in its DOMAIN.          *)

Str(s) == [t |-> "str", s |-> s]
Null == [t |-> "none", s |-> <<>>]

Get(item, k) == IF k \in DOMAIN item THEN item[k] ELSE Null

Digits == {"0", "1", "2", "3", "4", "5", "6", "7", "8", "9"}

DigitVal(c) ==
    CASE c = "0" -> 0 [] c = "1" -> 1 [] c = "2" -> 2 [] c = "3" -> 3
      [] c = "4" -> 4 [] c = "5" -> 5 [] c = "6" -> 6 [] c = "7" -> 7
      [] c = "8" -> 8 [] c = "9" -> 9

\* SUPERSCRIPT TWO, a digit for str.isdigit() that int() does not parse
Sup2 == "sup2"

\* str.isdigit()
isdigit(s) == s # <<>> /\ \A i \in 1..Len(s) : s[i] \in Digits \cup {Sup2}

\* the characters str.strip() removes
Whitespace == {" ", "\t", "\n"}

RECURSIVE LStrip(_)
LStrip(s) == IF s # <<>> /\ Head(s) \in Whitespace THEN LStrip(Tail(s)) ELSE s

RECURSIVE RStrip(_)
RStrip(s) ==
    IF s # <<>> /\ s[Len(s)] \in Whitespace
    THEN RStrip(SubSeq(s, 1, Len(s) - 1)) ELSE s

Strip(s) == RStrip(LStrip(s))

\* value is None or (isinstance(value, str) and value.strip() == "")
IsMissing(value) == value = Null \/ (value.t = "str" /\ Strip(value.s) = <<>>)

\* truth value of a str or None
Truthy(value) == value.t = "str" /\ value.s # <<>>

\* a key that a dict of the input does not have
Absent == [t |-> "absent", s |-> <<>>]

\* an int and a list as Python values
PyInt(n) == [t |-> "int", s |-> <<n>>]
PyList(l) == [t |-> "list", s |-> l]

\* a str written as one token, where only its type and its emptiness matter
Word(w) == Str(<<w>>)

\* truth value of any of these values
PyTruthy(value) ==
    CASE value.t = "int" -> value.s[1] # 0
      [] value.t \in {"str", "list"} -> value.s # <<>>
      [] OTHER -> FALSE

----------------------------------------------------------------------------
(* Resource descriptor RESOURCES["clientes"] *)

columns ==
    << "id_cliente", "primer_nombre", "segundo_nombre", "primer_apellido",
       "segundo_apellido", "tipo_identificacion", "numero_identificacion",
       "numero_celular", "correo_electronico", "fecha_afiliacion",
       "codigo_identificacion" >>

required_fields ==
    { "primer_nombre", "primer_apellido", "tipo_identificacion",
      "numero_identificacion", "fecha_afiliacion", "codigo_identificacion" }

ColumnSet == {columns[i] : i \in 1..Len(columns)}

A == Str(<<"A">>)
M == Str(<<"M">>)
E == Str(<<"E">>)
Actions == {A, E, M}

----------------------------------------------------------------------------
(* The database behind the cursor *)

\* The table is a multiset of rows: db[row] is the number of stored copies.
EmptyTable == [row \in {} |-> 0]

RECURSIVE SumCopies(_, _)
SumCopies(db, rows) ==
    IF rows = {} THEN 0
    ELSE LET row == CHOOSE x \in rows : TRUE
         IN db[row] + SumCopies(db, rows \ {row})

RowCount(db) == SumCopies(db, DOMAIN db)

Codigos(db) == {row["codigo_identificacion"] : row \in DOMAIN db}

\* WHERE codigo_identificacion = %s: a NULL parameter matches no row
Matches(row, codigo) == codigo # Null /\ row["codigo_identificacion"] = codigo

\* the rows a statement with WHERE codigo_identificacion = %s addresses
MatchCount(db, codigo) ==
    SumCopies(db, {row \in DOMAIN db : Matches(row, codigo)})

\* INSERT INTO clientes (...) VALUES (...)
InsertRow(db, row) ==
    [x \in DOMAIN db \cup {row} |->
        (IF x \in DOMAIN db THEN db[x] ELSE 0) + (IF x = row THEN 1 ELSE 0)]

\* an UPDATE that sets every column the row does not supply to NULL
UpdateRows_NullsOmitted(db, codigo, set_cols, item) ==
    LET image(row) ==
            IF Matches(row, codigo)
            THEN [col \in DOMAIN row |->
                    IF col \in set_cols THEN item[col]
                    ELSE IF col = "codigo_identificacion" THEN row[col]
                    ELSE Null]
            ELSE row
    IN [x \in {image(row) : row \in DOMAIN db} |->
          SumCopies(db, {row \in DOMAIN db : image(row) = x})]

\* UPDATE clientes SET col = item[col], ... WHERE codigo_identificacion = %s
UpdateRows(db, codigo, set_cols, item) ==
    LET image(row) ==
            IF Matches(row, codigo)
            THEN [col \in DOMAIN row |->
                    IF col \in set_cols THEN item[col] ELSE row[col]]
            ELSE row
    IN [x \in {image(row) : row \in DOMAIN db} |->
          SumCopies(db, {row \in DOMAIN db : image(row) = x})]

\* DELETE FROM clientes WHERE codigo_identificacion = %s
DeleteRows(db, codigo) ==
    [x \in {row \in DOMAIN db : ~Matches(row, codigo)} |-> db[x]]

\* uuid.uuid4(): an opaque surrogate key; no statement of the engine
\* addresses a row of clientes by it, and the model does not tell two apart
uuid4 == Str(<<"u", "u", "i", "d">>)

\* one cursor.execute call, as recorded in the statement log
Stmt(kind, fila, codigo, raised, rowcount) ==
    [kind |-> kind, fila |-> fila, codigo |-> codigo, raised |-> raised,
     rowcount |-> rowcount]

----------------------------------------------------------------------------
(* Error entries.  A message is named by the words that identify it.       *)

NoErrors == [f \in {} |-> ""]

MsgRequerido == "es requerido"
MsgNoExiste == "no existe"
MsgYaExiste == "ya existe"
MsgDuplicado == "duplicado en la solicitud"
MsgTipo == "debe ser un string de 2 digitos entre 01 y 20"
MsgFecha == "debe estar en formato YYYY-MM-DD"
MsgAccion == "La accion debe ser A, E o M"
MsgProcesar == "Error al procesar registro"
MsgActualizar == "No se pudo actualizar"
MsgEliminar == "No se pudo eliminar"

\* field_errors[k] = v
Put(d, k, v) == [x \in DOMAIN d \cup {k} |-> IF x = k THEN v ELSE d[x]]

\* the errors of the first failing check only
DictUpdate_FirstOnly(d, e) == IF DOMAIN d # {} THEN d ELSE e

\* d.update(e)
DictUpdate(d, e) ==
    [x \in DOMAIN d \cup DOMAIN e |-> IF x \in DOMAIN e THEN e[x] ELSE d[x]]

ErrorEntry(fila, field_errors) == [fila |-> fila, errors |-> field_errors]

\* a skip test that never finds the row among the errors
HasFila_NeverFound(errors, fila) == FALSE

\* any(e["fila"] == index + 1 for e in errors)
HasFila(errors, fila) == \E k \in 1..Len(errors) : errors[k].fila = fila

----------------------------------------------------------------------------
(* Processing path: validation (validate_client_data)                      *)

\* the loop over required_fields of validate_client_item
RequiredErrors(item, action) ==
    LET required == IF action \in {M, E} THEN {"codigo_identificacion"}
                    ELSE required_fields
    IN [f \in {g \in required : IsMissing(Get(item, g))} |-> MsgRequerido]

\* the condition under which validate_client_item queries the table
ChecksExistence(item, action) ==
    /\ action \in {M, E}
    /\ "codigo_identificacion" \in DOMAIN item
    /\ "codigo_identificacion" \notin DOMAIN RequiredErrors(item, action)

\* the existence test inverted: an error when the identifier is found
check_existence_in_db_Inverted(db, codigo_identificacion, field_errors, action) ==
    IF MatchCount(db, codigo_identificacion) > 0
    THEN Put(field_errors, "codigo_identificacion", MsgNoExiste)
    ELSE field_errors

check_existence_in_db(db, codigo_identificacion, field_errors, action) ==
    IF MatchCount(db, codigo_identificacion) = 0
    THEN Put(field_errors, "codigo_identificacion", MsgNoExiste)
    ELSE field_errors

\* validation without the existence query
validate_client_item_RequiredOnly(db, item, action) == RequiredErrors(item, action)

validate_client_item(db, item, action) ==
    LET field_errors == RequiredErrors(item, action)
    IN IF ChecksExistence(item, action)
       THEN check_existence_in_db(db, item["codigo_identificacion"],
                                  field_errors, action)
       ELSE field_errors

\* vfault is the row whose existence query raises (0: none does); the
\* exception is not caught here and ends the loop
RECURSIVE validate_client_data_loop(_, _, _, _, _)
validate_client_data_loop(db, batch, index, vfault, acc) ==
    IF index >= Len(batch) THEN acc
    ELSE LET item == batch[index + 1]
             action == Get(item, "accion")
             queried == ChecksExistence(item, action)
             sel == Stmt("SELECT", index + 1, Get(item, "codigo_identificacion"),
                         vfault = index + 1, 0)
             log == IF queried THEN Append(acc.stmts, sel) ELSE acc.stmts
         IN IF queried /\ vfault = index + 1
            THEN [acc EXCEPT !.raised = TRUE, !.stmts = log]
            ELSE LET field_errors == validate_client_item(db, item, action)
                     errs == IF DOMAIN field_errors # {}
                             THEN Append(acc.errors,
                                         ErrorEntry(index + 1, field_errors))
                             ELSE acc.errors
                 IN validate_client_data_loop(db, batch, index + 1, vfault,
                        [acc EXCEPT !.errors = errs, !.stmts = log])

validate_client_data(db, batch, vfault) ==
    validate_client_data_loop(db, batch, 0, vfault,
        [raised |-> FALSE, errors |-> <<>>, stmts |-> <<>>])

----------------------------------------------------------------------------
(* Processing path: execution (process_valid_client_data)                  *)
(* A handler's outcome: exc says that it raised; otherwise success, the    *)
(* error entry of a failure, and the table after the statement.            *)

Outcome(exc, success, error, db, stmt) ==
    [exc |-> exc, success |-> success, error |-> error, db |-> db, stmt |-> stmt]

NoError == ErrorEntry(0, NoErrors)

GeneralError(index, msg) == ErrorEntry(index + 1, Put(NoErrors, "general", msg))

\* fault: the statement raises in the database
handle_insert(db, item, fault) ==
    LET item1 == Put(item, "id_cliente", uuid4)
        item2 == IF "numero_tarjeta" \in DOMAIN item1 THEN item1
                 ELSE Put(item1, "numero_tarjeta", Null)
        row == [col \in ColumnSet |-> Get(item2, col)]
        codigo == row["codigo_identificacion"]
    IN IF fault
       THEN Outcome(TRUE, FALSE, NoError, db, Stmt("INSERT", 0, codigo, TRUE, 0))
       ELSE Outcome(FALSE, TRUE, NoError, InsertRow(db, row),
                    Stmt("INSERT", 0, codigo, FALSE, 1))

\* an UPDATE that counts as a success whatever its rowcount
handle_update_ZeroRowsSucceed(db, item, index, fault) ==
    LET set_cols == {col \in ColumnSet :
                        col \in DOMAIN item /\ col # "codigo_identificacion"}
        codigo == Get(item, "codigo_identificacion")
    IN IF "codigo_identificacion" \notin DOMAIN item
       THEN Outcome(TRUE, FALSE, NoError, db, Stmt("NONE", 0, codigo, TRUE, 0))
       ELSE IF fault \/ set_cols = {}
       THEN Outcome(TRUE, FALSE, NoError, db, Stmt("UPDATE", 0, codigo, TRUE, 0))
       ELSE Outcome(FALSE, TRUE, NoError, UpdateRows(db, codigo, set_cols, item),
                    Stmt("UPDATE", 0, codigo, FALSE, MatchCount(db, codigo)))

\* an UPDATE with an empty SET list is a syntax error: the statement raises
handle_update(db, item, index, fault) ==
    LET set_cols == {col \in ColumnSet :
                        col \in DOMAIN item /\ col # "codigo_identificacion"}
        codigo == Get(item, "codigo_identificacion")
        rowcount == MatchCount(db, codigo)
        updated == UpdateRows(db, codigo, set_cols, item)
    IN IF "codigo_identificacion" \notin DOMAIN item
       THEN Outcome(TRUE, FALSE, NoError, db, Stmt("NONE", 0, codigo, TRUE, 0))
       ELSE IF fault \/ set_cols = {}
       THEN Outcome(TRUE, FALSE, NoError, db, Stmt("UPDATE", 0, codigo, TRUE, 0))
       ELSE IF rowcount > 0
       THEN Outcome(FALSE, TRUE, NoError, updated,
                    Stmt("UPDATE", 0, codigo, FALSE, rowcount))
       ELSE Outcome(FALSE, FALSE, GeneralError(index, MsgActualizar), updated,
                    Stmt("UPDATE", 0, codigo, FALSE, rowcount))

\* a DELETE that counts as a success whatever its rowcount
handle_delete_ZeroRowsSucceed(db, item, index, fault) ==
    LET codigo == Get(item, "codigo_identificacion")
    IN IF "codigo_identificacion" \notin DOMAIN item
       THEN Outcome(TRUE, FALSE, NoError, db, Stmt("NONE", 0, codigo, TRUE, 0))
       ELSE IF fault
       THEN Outcome(TRUE, FALSE, NoError, db, Stmt("DELETE", 0, codigo, TRUE, 0))
       ELSE Outcome(FALSE, TRUE, NoError, DeleteRows(db, codigo),
                    Stmt("DELETE", 0, codigo, FALSE, MatchCount(db, codigo)))

handle_delete(db, item, index, fault) ==
    LET codigo == Get(item, "codigo_identificacion")
        rowcount == MatchCount(db, codigo)
        kept == DeleteRows(db, codigo)
    IN IF "codigo_identificacion" \notin DOMAIN item
       THEN Outcome(TRUE, FALSE, NoError, db, Stmt("NONE", 0, codigo, TRUE, 0))
       ELSE IF fault
       THEN Outcome(TRUE, FALSE, NoError, db, Stmt("DELETE", 0, codigo, TRUE, 0))
       ELSE IF rowcount > 0
       THEN Outcome(FALSE, TRUE, NoError, kept,
                    Stmt("DELETE", 0, codigo, FALSE, rowcount))
       ELSE Outcome(FALSE, FALSE, GeneralError(index, MsgEliminar), kept,
                    Stmt("DELETE", 0, codigo, FALSE, rowcount))

\* the dispatch on the action in process_client_item
Dispatch(db, item, action, index, fault) ==
    CASE action = A -> handle_insert(db, item, fault)
      [] action = M -> handle_update(db, item, index, fault)
      [] action = E -> handle_delete(db, item, index, fault)

\* no except clause: the exception of the handler leaves process_client_item
Caught_Propagates(r, index) ==
    [r EXCEPT !.stmt = [r.stmt EXCEPT !.fila = index + 1]]

\* the except clause of process_client_item: an exception raised by the
\* handler becomes a failure result
Caught(r, index) ==
    IF r.exc
    THEN Outcome(FALSE, FALSE, GeneralError(index, MsgProcesar), r.db,
                 [r.stmt EXCEPT !.fila = index + 1])
    ELSE Outcome(FALSE, r.success, r.error, r.db,
                 [r.stmt EXCEPT !.fila = index + 1])

process_client_item(db, item, action, index, fault) ==
    Caught(Dispatch(db, item, action, index, fault), index)

\* a loop body that issues the statement of a failed row a second time
Tally_Retries(acc, action, process_result) ==
    IF process_result.exc
    THEN [acc EXCEPT !.raised = TRUE,
                     !.stmts = IF process_result.stmt.kind = "NONE" THEN @
                               ELSE Append(@, process_result.stmt)]
    ELSE [raised |-> FALSE,
          inserted |-> acc.inserted
                         + (IF process_result.success /\ action = A THEN 1 ELSE 0),
          updated |-> acc.updated
                        + (IF process_result.success /\ action = M THEN 1 ELSE 0),
          deleted |-> acc.deleted
                        + (IF process_result.success /\ action = E THEN 1 ELSE 0),
          processing_errors |->
              IF process_result.success THEN acc.processing_errors
              ELSE Append(acc.processing_errors, process_result.error),
          db |-> process_result.db,
          stmts |-> IF process_result.stmt.kind = "NONE" THEN acc.stmts
                    ELSE IF process_result.success
                    THEN Append(acc.stmts, process_result.stmt)
                    ELSE acc.stmts \o <<process_result.stmt, process_result.stmt>>]

\* the body of the loop of process_valid_client_data after the row's
\* execution: count the success or keep the error
Tally(acc, action, process_result) ==
    IF process_result.exc
    THEN [acc EXCEPT !.raised = TRUE,
                     !.stmts = IF process_result.stmt.kind = "NONE" THEN @
                               ELSE Append(@, process_result.stmt)]
    ELSE [raised |-> FALSE,
          inserted |-> acc.inserted
                         + (IF process_result.success /\ action = A THEN 1 ELSE 0),
          updated |-> acc.updated
                        + (IF process_result.success /\ action = M THEN 1 ELSE 0),
          deleted |-> acc.deleted
                        + (IF process_result.success /\ action = E THEN 1 ELSE 0),
          processing_errors |->
              IF process_result.success THEN acc.processing_errors
              ELSE Append(acc.processing_errors, process_result.error),
          db |-> process_result.db,
          stmts |-> IF process_result.stmt.kind = "NONE" THEN acc.stmts
                    ELSE Append(acc.stmts, process_result.stmt)]

\* a loop that ends at the first row whose execution fails
RECURSIVE process_valid_client_data_loop_StopsAtFailure(_, _, _, _, _)
process_valid_client_data_loop_StopsAtFailure(batch, validation_errors, index, faults, acc) ==
    IF index >= Len(batch) \/ acc.raised \/ acc.processing_errors # <<>> THEN acc
    ELSE IF HasFila(validation_errors, index + 1)
    THEN process_valid_client_data_loop_StopsAtFailure(batch, validation_errors,
                                                       index + 1, faults, acc)
    ELSE process_valid_client_data_loop_StopsAtFailure(batch, validation_errors,
             index + 1, faults,
             Tally(acc, Get(batch[index + 1], "accion"),
                   process_client_item(acc.db, batch[index + 1],
                                       Get(batch[index + 1], "accion"), index,
                                       (index + 1) \in faults)))

\* a loop that executes every row, rejected or not
RECURSIVE process_valid_client_data_loop_ExecutesRejected(_, _, _, _, _)
process_valid_client_data_loop_ExecutesRejected(batch, validation_errors, index, faults, acc) ==
    IF index >= Len(batch) \/ acc.raised THEN acc
    ELSE process_valid_client_data_loop_ExecutesRejected(batch, validation_errors,
             index + 1, faults,
             Tally(acc, Get(batch[index + 1], "accion"),
                   process_client_item(acc.db, batch[index + 1],
                                       Get(batch[index + 1], "accion"), index,
                                       (index + 1) \in faults)))

\* faults: the rows whose mutating statement raises in the database
RECURSIVE process_valid_client_data_loop(_, _, _, _, _)
process_valid_client_data_loop(batch, validation_errors, index, faults, acc) ==
    IF index >= Len(batch) \/ acc.raised THEN acc
    ELSE IF HasFila(validation_errors, index + 1)
    THEN process_valid_client_data_loop(batch, validation_errors, index + 1,
                                        faults, acc)
    ELSE process_valid_client_data_loop(batch, validation_errors, index + 1,
             faults,
             Tally(acc, Get(batch[index + 1], "accion"),
                   process_client_item(acc.db, batch[index + 1],
                                       Get(batch[index + 1], "accion"), index,
                                       (index + 1) \in faults)))

\* no row is executed when any row of the batch failed validation
process_valid_client_data_AllOrNothing(db, batch, validation_errors, faults) ==
    IF validation_errors # <<>>
    THEN [raised |-> FALSE, inserted |-> 0, updated |-> 0, deleted |-> 0,
          processing_errors |-> <<>>, db |-> db, stmts |-> <<>>]
    ELSE process_valid_client_data_loop(batch, validation_errors, 0, faults,
             [raised |-> FALSE, inserted |-> 0, updated |-> 0, deleted |-> 0,
              processing_errors |-> <<>>, db |-> db, stmts |-> <<>>])

process_valid_client_data(db, batch, validation_errors, faults) ==
    process_valid_client_data_loop(batch, validation_errors, 0, faults,
        [raised |-> FALSE, inserted |-> 0, updated |-> 0, deleted |-> 0,
         processing_errors |-> <<>>, db |-> db, stmts |-> <<>>])

\* the returned errors with the execution errors first
Returned_ExecutionFirst(db, v, processing_results) ==
    IF v.raised
    THEN [raised |-> TRUE, inserted_count |-> 0, updated_count |-> 0,
          deleted_count |-> 0, errors |-> <<>>, db |-> db, stmts |-> v.stmts]
    ELSE [raised |-> processing_results.raised,
          inserted_count |-> processing_results.inserted,
          updated_count |-> processing_results.updated,
          deleted_count |-> processing_results.deleted,
          errors |-> processing_results.processing_errors \o v.errors,
          db |-> processing_results.db,
          stmts |-> v.stmts \o processing_results.stmts]

\* the dict validate_and_process_client_data returns, with the table and
\* the statement log the call leaves; an exception of validate_client_data
\* leaves the call before any row is executed
Returned(db, v, processing_results) ==
    IF v.raised
    THEN [raised |-> TRUE, inserted_count |-> 0, updated_count |-> 0,
          deleted_count |-> 0, errors |-> <<>>, db |-> db, stmts |-> v.stmts]
    ELSE [raised |-> processing_results.raised,
          inserted_count |-> processing_results.inserted,
          updated_count |-> processing_results.updated,
          deleted_count |-> processing_results.deleted,
          errors |-> v.errors \o processing_results.processing_errors,
          db |-> processing_results.db,
          stmts |-> v.stmts \o processing_results.stmts]

\* the second statement of validate_and_process_client_data and its return
ProcessValidated(db, batch, v, faults) ==
    Returned(db, v, process_valid_client_data(db, batch, v.errors, faults))

\* a single loop that validates each row and executes it at once, so that a
\* row is validated against what the rows before it left in the table
RECURSIVE RowByRow(_, _, _, _, _, _)
RowByRow(batch, index, vfault, faults, errors, acc) ==
    IF index >= Len(batch) \/ acc.raised
    THEN [raised |-> acc.raised,
          inserted_count |-> acc.inserted,
          updated_count |-> acc.updated,
          deleted_count |-> acc.deleted,
          errors |-> IF acc.raised THEN <<>> ELSE errors \o acc.processing_errors,
          db |-> acc.db,
          stmts |-> acc.stmts]
    ELSE LET item == batch[index + 1]
             action == Get(item, "accion")
             queried == ChecksExistence(item, action)
             sel == Stmt("SELECT", index + 1, Get(item, "codigo_identificacion"),
                         vfault = index + 1, 0)
             log == IF queried THEN Append(acc.stmts, sel) ELSE acc.stmts
             field_errors == validate_client_item(acc.db, item, action)
         IN IF queried /\ vfault = index + 1
            THEN RowByRow(batch, index + 1, vfault, faults, errors,
                          [acc EXCEPT !.raised = TRUE, !.stmts = log])
            ELSE IF DOMAIN field_errors # {}
            THEN RowByRow(batch, index + 1, vfault, faults,
                          Append(errors, ErrorEntry(index + 1, field_errors)),
                          [acc EXCEPT !.stmts = log])
            ELSE RowByRow(batch, index + 1, vfault, faults, errors,
                          Tally([acc EXCEPT !.stmts = log], action,
                                process_client_item(acc.db, item, action, index,
                                                    (index + 1) \in faults)))

validate_and_process_client_data_RowByRow(db, batch, vfault, faults) ==
    RowByRow(batch, 0, vfault, faults, <<>>,
        [raised |-> FALSE, inserted |-> 0, updated |-> 0, deleted |-> 0,
         processing_errors |-> <<>>, db |-> db, stmts |-> <<>>])

validate_and_process_client_data(db, batch, vfault, faults) ==
    ProcessValidated(db, batch, validate_client_data(db, batch, vfault), faults)

----------------------------------------------------------------------------
(* Validation path (validate_data)                                         *)

HasValidAction(item) == "accion" \in DOMAIN item /\ item["accion"] \in Actions

RECURSIVE validate_actions_loop(_, _, _)
validate_actions_loop(batch, index, errors) ==
    IF index >= Len(batch) THEN errors
    ELSE validate_actions_loop(batch, index + 1,
             IF HasValidAction(batch[index + 1]) THEN errors
             ELSE Append(errors,
                         ErrorEntry(index + 1, Put(NoErrors, "accion", MsgAccion))))

validate_actions(batch) == validate_actions_loop(batch, 0, <<>>)

\* a count over the Add rows only
count_codigo_occurrences_AddOnly(batch, codigo) ==
    Cardinality({i \in 1..Len(batch) :
                    /\ Get(batch[i], "accion") = A
                    /\ Truthy(Get(batch[i], "codigo_identificacion"))
                    /\ Get(batch[i], "codigo_identificacion") = codigo})

\* codigo_counts.get(codigo, 0) of the dict count_codigo_occurrences builds
count_codigo_occurrences(batch, codigo) ==
    Cardinality({i \in 1..Len(batch) :
                    /\ Get(batch[i], "accion") \in Actions
                    /\ Truthy(Get(batch[i], "codigo_identificacion"))
                    /\ Get(batch[i], "codigo_identificacion") = codigo})

\* the full required set whatever the action
validate_item_fields_FullSetAlways(item, action) == RequiredErrors(item, A)

validate_item_fields(item, action) == RequiredErrors(item, action)

RECURSIVE IntOf(_)
IntOf(s) == IF s = <<>> THEN 0
            ELSE 10 * IntOf(SubSeq(s, 1, Len(s) - 1)) + DigitVal(s[Len(s)])

\* exc is "" and errors the dict returned, or exc is the class of the
\* exception raised: int() parses decimal digits only, and two characters
\* that pass isdigit() reach it
validate_tipo_identificacion(item, action) ==
    IF /\ action \in {A, M}
       /\ "tipo_identificacion" \in DOMAIN item
       /\ Truthy(item["tipo_identificacion"])
    THEN IF /\ Len(item["tipo_identificacion"].s) = 2
            /\ isdigit(item["tipo_identificacion"].s)
         THEN IF \E i \in 1..2 : item["tipo_identificacion"].s[i] \notin Digits
              THEN [exc |-> "ValueError", errors |-> NoErrors]
              ELSE IF /\ 1 <= IntOf(item["tipo_identificacion"].s)
                      /\ IntOf(item["tipo_identificacion"].s) <= 20
              THEN [exc |-> "", errors |-> NoErrors]
              ELSE [exc |-> "",
                    errors |-> Put(NoErrors, "tipo_identificacion", MsgTipo)]
         ELSE [exc |-> "", errors |-> Put(NoErrors, "tipo_identificacion", MsgTipo)]
    ELSE [exc |-> "", errors |-> NoErrors]

\* re.match(r'^\d{4}-\d{2}-\d{2}$', s); $ also matches before a final newline
MatchesDatePattern(s) ==
    /\ Len(s) \in {10, 11}
    /\ \A i \in {1, 2, 3, 4, 6, 7, 9, 10} : s[i] \in Digits
    /\ s[5] = "-" /\ s[8] = "-"
    /\ Len(s) = 11 => s[11] = "\n"

validate_fecha_afiliacion(item, action) ==
    IF /\ action \in {A, M}
       /\ "fecha_afiliacion" \in DOMAIN item
       /\ Truthy(item["fecha_afiliacion"])
       /\ ~MatchesDatePattern(item["fecha_afiliacion"].s)
    THEN Put(NoErrors, "fecha_afiliacion", MsgFecha)
    ELSE NoErrors

\* the condition under which validate_database_operations queries the table
QueriesDatabase(batch, item, action) ==
    /\ "codigo_identificacion" \in DOMAIN item
    /\ \/ action \in {M, E}
       \/ /\ action = A
          /\ count_codigo_occurrences(batch, item["codigo_identificacion"]) <= 1

\* the duplicate test off by one: two occurrences are not yet a duplicate
validate_database_operations_OffByOne(db, batch, item, action) ==
    LET present == "codigo_identificacion" \in DOMAIN item
        codigo == Get(item, "codigo_identificacion")
    IN IF action \in {M, E} /\ present
       THEN IF MatchCount(db, codigo) = 0
            THEN Put(NoErrors, "codigo_identificacion", MsgNoExiste)
            ELSE NoErrors
       ELSE IF action = A /\ present
       THEN IF count_codigo_occurrences(batch, codigo) > 2
            THEN Put(NoErrors, "codigo_identificacion", MsgDuplicado)
            ELSE IF MatchCount(db, codigo) > 0
            THEN Put(NoErrors, "codigo_identificacion", MsgYaExiste)
            ELSE NoErrors
       ELSE NoErrors

\* the existence test of an Add row left out: only duplication is reported
validate_database_operations_AddUnchecked(db, batch, item, action) ==
    LET present == "codigo_identificacion" \in DOMAIN item
        codigo == Get(item, "codigo_identificacion")
    IN IF action \in {M, E} /\ present
       THEN IF MatchCount(db, codigo) = 0
            THEN Put(NoErrors, "codigo_identificacion", MsgNoExiste)
            ELSE NoErrors
       ELSE IF action = A /\ present
       THEN IF count_codigo_occurrences(batch, codigo) > 1
            THEN Put(NoErrors, "codigo_identificacion", MsgDuplicado)
            ELSE NoErrors
       ELSE NoErrors

validate_database_operations(db, batch, item, action) ==
    LET present == "codigo_identificacion" \in DOMAIN item
        codigo == Get(item, "codigo_identificacion")
    IN IF action \in {M, E} /\ present
       THEN IF MatchCount(db, codigo) = 0
            THEN Put(NoErrors, "codigo_identificacion", MsgNoExiste)
            ELSE NoErrors
       ELSE IF action = A /\ present
       THEN IF count_codigo_occurrences(batch, codigo) > 1
            THEN Put(NoErrors, "codigo_identificacion", MsgDuplicado)
            ELSE IF MatchCount(db, codigo) > 0
            THEN Put(NoErrors, "codigo_identificacion", MsgYaExiste)
            ELSE NoErrors
       ELSE NoErrors

\* vfault is the row whose existence query raises (0: none does); that
\* exception, and the ValueError of validate_tipo_identificacion, end the loop
RECURSIVE validate_items_loop(_, _, _, _, _, _)
validate_items_loop(db, batch, existing_errors, index, vfault, acc) ==
    IF index >= Len(batch) THEN acc
    ELSE IF HasFila(existing_errors, index + 1)
    THEN validate_items_loop(db, batch, existing_errors, index + 1, vfault, acc)
    ELSE LET item == batch[index + 1]
             action == Get(item, "accion")
             tipo == validate_tipo_identificacion(item, action)
             queried == QueriesDatabase(batch, item, action)
             sel == Stmt("SELECT", index + 1, Get(item, "codigo_identificacion"),
                         vfault = index + 1, 0)
             log == IF queried THEN Append(acc.stmts, sel) ELSE acc.stmts
             field_errors ==
                 DictUpdate(DictUpdate(DictUpdate(
                     validate_item_fields(item, action),
                     tipo.errors),
                     validate_fecha_afiliacion(item, action)),
                     validate_database_operations(db, batch, item, action))
         IN IF tipo.exc # ""
            THEN [acc EXCEPT !.raised = TRUE, !.exc = tipo.exc]
            ELSE IF queried /\ vfault = index + 1
            THEN [acc EXCEPT !.raised = TRUE, !.exc = "Exception", !.stmts = log]
            ELSE validate_items_loop(db, batch, existing_errors, index + 1, vfault,
                     [acc EXCEPT
                        !.errors = IF DOMAIN field_errors # {}
                                   THEN Append(@, ErrorEntry(index + 1, field_errors))
                                   ELSE @,
                        !.stmts = log])

\* a validate_items that is not told which rows validate_actions rejected
validate_items_NoExistingErrors(db, batch, existing_errors, vfault) ==
    validate_items_loop(db, batch, <<>>, 0, vfault,
        [raised |-> FALSE, exc |-> "", errors |-> <<>>, stmts |-> <<>>])

validate_items(db, batch, existing_errors, vfault) ==
    validate_items_loop(db, batch, existing_errors, 0, vfault,
        [raised |-> FALSE, exc |-> "", errors |-> <<>>, stmts |-> <<>>])

\* a validate_data that counts the errors of validate_items alone
validate_data_ItemErrorsOnly(db, batch, vfault) ==
    LET errors0 == validate_actions(batch)
        items == validate_items(db, batch, errors0, vfault)
        errors == errors0 \o items.errors
    IN [raised |-> items.raised,
        exc |-> items.exc,
        valid_count |-> IF items.raised THEN 0 ELSE Len(batch) - Len(items.errors),
        errors |-> IF items.raised THEN <<>> ELSE errors,
        stmts |-> items.stmts]

validate_data(db, batch, vfault) ==
    LET errors0 == validate_actions(batch)
        items == validate_items(db, batch, errors0, vfault)
        errors == errors0 \o items.errors
    IN [raised |-> items.raised,
        exc |-> items.exc,
        valid_count |-> IF items.raised THEN 0 ELSE Len(batch) - Len(errors),
        errors |-> IF items.raised THEN <<>> ELSE errors,
        stmts |-> items.stmts]

----------------------------------------------------------------------------
(* get_paginated_data                                                      *)

\* RESOURCES["clientes"]["limit"] and ["search_fields"]
limit == 10

search_fields ==
    << "primer_nombre", "primer_apellido", "numero_identificacion",
       "numero_tarjeta", "numero_celular", "correo_electronico",
       "segundo_apellido" >>

\* a character str.isdigit() accepts and int() does not: SUPERSCRIPT TWO
UpperCase ==
    << "A", "B", "C", "D", "E", "F", "G", "H", "I", "J", "K", "L", "M",
       "N", "O", "P", "Q", "R", "S", "T", "U", "V", "W", "X", "Y", "Z" >>

LowerCase ==
    << "a", "b", "c", "d", "e", "f", "g", "h", "i", "j", "k", "l", "m",
       "n", "o", "p", "q", "r", "s", "t", "u", "v", "w", "x", "y", "z" >>

LowerChar(c) ==
    IF \E i \in 1..Len(UpperCase) : UpperCase[i] = c
    THEN LowerCase[CHOOSE i \in 1..Len(UpperCase) : UpperCase[i] = c]
    ELSE c

\* str.lower()
lower(s) == [i \in 1..Len(s) |-> LowerChar(s[i])]

\* page = int(query_params.get('page', '1')) if ....isdigit() else 1, then
\* the floor of 1; int() raises ValueError on a digit that is not decimal
ParsePage(raw) ==
    IF ~isdigit(raw.s) THEN [raised |-> FALSE, page |-> 1]
    ELSE IF \E i \in 1..Len(raw.s) : raw.s[i] \notin Digits
    THEN [raised |-> TRUE, page |-> 0]
    ELSE [raised |-> FALSE, page |-> IF IntOf(raw.s) < 1 THEN 1 ELSE IntOf(raw.s)]

\* the keys of a resource descriptor that get_paginated_data reads
clientes ==
    [db_schema |-> "mstx", db_table |-> "clientes", limit |-> limit, search_fields |-> search_fields,
     columns |-> columns]

historial_transacciones ==
    [db_schema |-> "mstx", db_table |-> "historial_transacciones",
     limit |-> 10,
     search_fields |->
         << "numero_tarjeta", "fecha", "hora", "estado_notificacion",
            "nombre_comercial", "metodo_notificacion", "mensaje_notificacion" >>,
     columns |->
         << "id", "id_cliente", "codigo_respuesta", "numero_tarjeta", "fecha",
            "hora", "hora_notificacion", "estado_notificacion",
            "nombre_comercial", "metodo_notificacion", "mensaje_notificacion" >>]

\* one predicate of the WHERE clause and the parameter bound to it
Filter(column, operator, param) ==
    [column |-> column, operator |-> operator, param |-> param]

\* a search filter that binds the value as it was sent
SearchFilter_Untrimmed(field, value) ==
    IF value.s # <<>>
    THEN <<Filter(field, "LIKE", Str(value.s \o <<"%">>))>>
    ELSE <<>>

\* the body of the loop over search_fields for a field the query names
SearchFilter(field, value) ==
    IF Strip(value.s) # <<>>
    THEN <<Filter(field, "LIKE", Str(lower(Strip(value.s)) \o <<"%">>))>>
    ELSE <<>>

\* a loop that puts every new filter ahead of the earlier ones
RECURSIVE search_filters_Prepends(_, _, _, _)
search_filters_Prepends(resource_config, params, index, filters) ==
    IF index >= Len(resource_config.search_fields) THEN filters
    ELSE search_filters_Prepends(resource_config, params, index + 1,
             IF resource_config.search_fields[index + 1] \in DOMAIN params
             THEN SearchFilter(resource_config.search_fields[index + 1],
                               params[resource_config.search_fields[index + 1]])
                    \o filters
             ELSE filters)

RECURSIVE search_filters(_, _, _, _)
search_filters(resource_config, params, index, filters) ==
    IF index >= Len(resource_config.search_fields) THEN filters
    ELSE search_filters(resource_config, params, index + 1,
             IF resource_config.search_fields[index + 1] \in DOMAIN params
             THEN filters \o SearchFilter(resource_config.search_fields[index + 1],
                                          params[resource_config.search_fields[index + 1]])
             ELSE filters)

\* the keys of a mapping, in some order
RECURSIVE KeysOf(_)
KeysOf(keys) ==
    IF keys = {} THEN <<>>
    ELSE LET k == CHOOSE x \in keys : TRUE IN <<k>> \o KeysOf(keys \ {k})

\* a filter for every key of the query, whatever the descriptor says
where_filters_EveryKey(resource_config, params) ==
    search_filters([resource_config EXCEPT
                      !.search_fields = KeysOf(DOMAIN params \ {"id_cliente"})],
                   params, 0, <<>>)
      \o (IF "id_cliente" \in DOMAIN params
          THEN <<Filter("id_cliente", "=", params["id_cliente"])>>
          ELSE <<>>)

\* the filter on id_cliente, added after the search filters
where_filters(resource_config, params) ==
    search_filters(resource_config, params, 0, <<>>)
      \o (IF "id_cliente" \in DOMAIN params
          THEN <<Filter("id_cliente", "=", params["id_cliente"])>>
          ELSE <<>>)

\* the text of a predicate: the column name is written into it, the value
\* is the placeholder %s
ClauseText(filter) ==
    IF filter.operator = "LIKE"
    THEN <<"LOWER(", filter.column, "::text)", "LIKE", "%s">>
    ELSE <<filter.column, "=", "%s">>

\* ' AND '.join(where_clauses)
RECURSIVE JoinAnd(_, _)
JoinAnd(filters, k) ==
    IF k > Len(filters) THEN <<>>
    ELSE (IF k > 1 THEN <<"AND">> ELSE <<>>)
           \o ClauseText(filters[k]) \o JoinAnd(filters, k + 1)

\* where_sql = f"WHERE {...}" if where_clauses else ""
where_sql(filters) ==
    IF filters # <<>> THEN <<"WHERE">> \o JoinAnd(filters, 1) ELSE <<>>

\* table_name is "<db_schema>"."<db_table>"
count_sql(resource_config, filters) ==
    <<"SELECT", "COUNT(*)", "FROM", resource_config.db_schema, ".",
      resource_config.db_table>> \o where_sql(filters)

select_sql(resource_config, filters) ==
    <<"SELECT", "*", "FROM", resource_config.db_schema, ".",
      resource_config.db_table>> \o where_sql(filters)
      \o <<"ORDER BY", resource_config.columns[1], "ASC", "LIMIT", "%s",
           "OFFSET", "%s">>

\* total_pages = math.ceil(total_records / limit) if total_records > 0 else 1
\* a ceiling that rounds down
total_pages_Floor(total_records, page_size) ==
    IF total_records > 0 THEN total_records \div page_size ELSE 1

total_pages(total_records, page_size) ==
    IF total_records > 0
    THEN (total_records \div page_size)
           + (IF total_records % page_size = 0 THEN 0 ELSE 1)
    ELSE 1

NoPage ==
    [status |-> "none", currentPage |-> 0, totalPages |-> 0, totalRecords |-> 0,
     recordsPerPage |-> 0, offset |-> 0, filters |-> <<>>, count_params |-> <<>>,
     data_params |-> <<>>, count_sql |-> <<>>, select_sql |-> <<>>]

\* the bind parameters of a list of filters
ParamsOf(filters) == [k \in 1..Len(filters) |-> filters[k].param]

\* a data query that binds the offset ahead of the limit
PageOf_OffsetFirst(resource_config, parsed_page, filters, total_records) ==
    IF parsed_page.raised THEN [NoPage EXCEPT !.status = "raised"]
    ELSE [status |-> "returned",
          currentPage |-> parsed_page.page,
          totalPages |-> total_pages(total_records, resource_config.limit),
          totalRecords |-> total_records,
          recordsPerPage |-> resource_config.limit,
          offset |-> (parsed_page.page - 1) * resource_config.limit,
          filters |-> filters,
          count_params |-> ParamsOf(filters),
          data_params |-> ParamsOf(filters)
                            \o <<PyInt((parsed_page.page - 1) * resource_config.limit),
                                 PyInt(resource_config.limit)>>,
          count_sql |-> count_sql(resource_config, filters),
          select_sql |-> select_sql(resource_config, filters)]

\* what get_paginated_data returns, and the two queries it sent
PageOf(resource_config, parsed_page, filters, total_records) ==
    IF parsed_page.raised THEN [NoPage EXCEPT !.status = "raised"]
    ELSE [status |-> "returned",
          currentPage |-> parsed_page.page,
          totalPages |-> total_pages(total_records, resource_config.limit),
          totalRecords |-> total_records,
          recordsPerPage |-> resource_config.limit,
          offset |-> (parsed_page.page - 1) * resource_config.limit,
          filters |-> filters,
          count_params |-> ParamsOf(filters),
          data_params |-> ParamsOf(filters)
                            \o <<PyInt(resource_config.limit),
                                 PyInt((parsed_page.page - 1) * resource_config.limit)>>,
          count_sql |-> count_sql(resource_config, filters),
          select_sql |-> select_sql(resource_config, filters)]

\* total_records: what the count query answers
get_paginated_data(resource_config, params, total_records) ==
    PageOf(resource_config,
           ParsePage(IF "page" \in DOMAIN params THEN params["page"]
                     ELSE Str(<<"1">>)),
           where_filters(resource_config, params), total_records)

----------------------------------------------------------------------------
(* Request handlers (lambda_function.py)                                   *)

BODY_MUST_BE_LIST_MSG == "El body debe ser una lista de diccionarios"
INVALID_ACTION_MSG == "Cada registro debe tener una accion valida (A, E, M)"
NO_TRANSACTION_HISTORY_MSG == "No se encontro historial"
\* the text of the ValueError int() raises
INVALID_LITERAL_MSG == "invalid literal for int() with base 10"
INTERNAL_ERROR_MSG == "Error interno del servidor"

\* json.loads(body): a list of rows, or a JSON object
ListBody(rows) == [kind |-> "list", rows |-> rows]
ObjectBody == [kind |-> "object", rows |-> <<>>]

\* the structural check that looks at the type of the body only
StructuralError_ListOnly(parsed) ==
    IF parsed.kind # "list" THEN BODY_MUST_BE_LIST_MSG ELSE ""

\* the checks handle_post_clientes and handle_post_validaciones make before
\* they hand the batch on: the message of the ValueError, "" when none is raised
StructuralError(parsed) ==
    IF parsed.kind # "list" THEN BODY_MUST_BE_LIST_MSG
    ELSE IF \E i \in 1..Len(parsed.rows) : ~HasValidAction(parsed.rows[i])
    THEN INVALID_ACTION_MSG
    ELSE ""

\* what validate_and_process_client_data leaves when it is not called
NotProcessed(db) ==
    [raised |-> FALSE, inserted_count |-> 0, updated_count |-> 0,
     deleted_count |-> 0, errors |-> <<>>, db |-> db, stmts |-> <<>>]

\* what validate_data leaves when it is not called
NotValidated ==
    [raised |-> FALSE, exc |-> "", valid_count |-> 0, errors |-> <<>>,
     stmts |-> <<>>]

\* a handler's way out: exc is "" or the class of the exception it raised,
\* called says that the batch was handed on, ret is what the callee left
Handled(exc, mensaje, called, ret) ==
    [exc |-> exc, mensaje |-> mensaje, called |-> called, ret |-> ret]

\* the return statement of handle_post_clientes and handle_post_validaciones;
\* an exception of the callee passes through
HandedOn(ret) == Handled(IF ret.raised THEN "Exception" ELSE "", "", TRUE, ret)

\* the same for a callee that raises more than one class of exception
PassedOn(ret) ==
    Handled(ret.exc, IF ret.exc = "ValueError" THEN INVALID_LITERAL_MSG ELSE "",
            TRUE, ret)

handle_post_clientes(db, parsed, vfault, faults) ==
    IF StructuralError(parsed) # ""
    THEN Handled("ValueError", StructuralError(parsed), FALSE, NotProcessed(db))
    ELSE HandedOn(validate_and_process_client_data(db, parsed.rows, vfault, faults))

handle_post_validaciones(db, parsed, vfault) ==
    IF StructuralError(parsed) # ""
    THEN Handled("ValueError", StructuralError(parsed), FALSE, NotValidated)
    ELSE PassedOn(validate_data(db, parsed.rows, vfault))

\* the body of a response; a key the body does not have is Null
Body(mensaje, inserted_count, updated_count, deleted_count, valid_count, errors) ==
    [mensaje |-> mensaje, inserted_count |-> inserted_count,
     updated_count |-> updated_count, deleted_count |-> deleted_count,
     valid_count |-> valid_count, errors |-> errors]

NoBody == Body("", Null, Null, Null, Null, Null)

\* what a resource handler did: the exception it raised or the response it
\* built, and the calls it made on the connection
Served(exc, mensaje, calls, statusCode, response_body) ==
    [exc |-> exc, mensaje |-> mensaje, conn |-> calls, statusCode |-> statusCode,
     body |-> response_body]

\* the dict validate_and_process_client_data returns, in the order of its keys
ReturnedKeys == <<"inserted_count", "updated_count", "deleted_count", "errors">>

\* inserted_count, updated_count, deleted_count, errors = <dict>: iterating
\* a dict yields its keys
UnpackDict(keys) == [k \in 1..Len(keys) |-> Word(keys[k])]

\* inserted_count > 0 or updated_count > 0 or deleted_count > 0, with the
\* TypeError of comparing a str with an int
AnyPositive(inserted_count, updated_count, deleted_count) ==
    IF inserted_count.t # "int" THEN "TypeError"
    ELSE IF inserted_count.s[1] > 0 THEN "True"
    ELSE IF updated_count.t # "int" THEN "TypeError"
    ELSE IF updated_count.s[1] > 0 THEN "True"
    ELSE IF deleted_count.t # "int" THEN "TypeError"
    ELSE IF deleted_count.s[1] > 0 THEN "True"
    ELSE "False"

\* handle_client_data_post after the call of handle_post_clientes returned:
\* commit, then the response body and the status code
ClientDataResponse(inserted_count, updated_count, deleted_count, errors) ==
    IF AnyPositive(inserted_count, updated_count, deleted_count) = "TypeError"
    THEN Served("TypeError", "", <<"commit">>, 0, NoBody)
    ELSE Served("", "", <<"commit">>,
                IF PyTruthy(errors)
                THEN (IF AnyPositive(inserted_count, updated_count, deleted_count) = "True"
                      THEN 207 ELSE 400)
                ELSE (IF AnyPositive(inserted_count, updated_count, deleted_count) = "True"
                      THEN 200 ELSE 400),
                Body("Procesados registros", inserted_count, updated_count,
                     deleted_count, Null, errors))

UnpackedResponse(unpacked) ==
    ClientDataResponse(unpacked[1], unpacked[2], unpacked[3], unpacked[4])

\* a handle_client_data_post that commits whatever handle_post_clientes did
handle_client_data_post_CommitsAlways(h) ==
    IF h.exc # "" THEN Served(h.exc, h.mensaje, <<"commit">>, 0, NoBody)
    ELSE UnpackedResponse(UnpackDict(ReturnedKeys))

handle_client_data_post(h) ==
    IF h.exc # "" THEN Served(h.exc, h.mensaje, <<>>, 0, NoBody)
    ELSE UnpackedResponse(UnpackDict(ReturnedKeys))

\* valid_count, errors = <tuple>; the status code of handle_validation_post
ValidationResponse(valid_count, errors) ==
    Served("", "", <<>>,
           IF valid_count.s[1] > 0 \/ ~PyTruthy(errors) THEN 200 ELSE 400,
           Body("registros validos", Null, Null, Null, valid_count, errors))

\* a handle_validation_post that commits as handle_client_data_post does
handle_validation_post_Commits(h) ==
    IF h.exc # "" THEN Served(h.exc, h.mensaje, <<>>, 0, NoBody)
    ELSE [ValidationResponse(PyInt(h.ret.valid_count), PyList(h.ret.errors))
            EXCEPT !.conn = <<"commit">>]

handle_validation_post(h) ==
    IF h.exc # "" THEN Served(h.exc, h.mensaje, <<>>, 0, NoBody)
    ELSE ValidationResponse(PyInt(h.ret.valid_count), PyList(h.ret.errors))

\* the except and finally clauses of handle_main_request
handle_main_request(served) ==
    IF served.exc = ""
    THEN Served("", "", served.conn \o <<"cursor.close", "conn.close">>,
                served.statusCode, served.body)
    ELSE IF served.exc = "ValueError"
    THEN Served("", "", served.conn \o <<"cursor.close", "conn.close">>,
                400, Body(served.mensaje, Null, Null, Null, Null, Null))
    ELSE Served("", "", served.conn \o <<"rollback", "cursor.close", "conn.close">>,
                500, Body(INTERNAL_ERROR_MSG, Null, Null, Null, Null, Null))

\* handle_main_request when conn.cursor() raises: the except clause rolls
\* back and prepares the 500, then the finally clause reads the name cursor,
\* which was never bound; the UnboundLocalError replaces the return and
\* leaves the function, and conn.close() is not reached
handle_main_request_no_cursor ==
    Served("UnboundLocalError", "", <<"rollback">>, 0, NoBody)

\* the id_cliente of a path, which uuid.UUID accepted
PathIds == {uuid4, Str(<<"u", "u", "i", "2">>)}

\* a PATCH that commits before it looks at the number of rows affected
handle_contactabilidad_resource_CommitsFirst(id_cliente, parsed, rows_affected, fault) ==
    IF id_cliente \notin PathIds \/ parsed.kind # "object" \/ parsed.rows = <<>>
         \/ \E k \in 1..Len(parsed.rows) :
               \/ parsed.rows[k].key \notin
                     {"requerido_correo", "requerido_notificacion", "requerido_celular"}
               \/ parsed.rows[k].value.t # "bool"
    THEN Served("", "", <<>>, 400, Body("", Null, Null, Null, Null, Null))
    ELSE IF fault THEN Served("Exception", "", <<>>, 0, NoBody)
    ELSE IF rows_affected > 0
    THEN Served("", "", <<"commit">>, 200,
                Body("El estado de requerido ha sido actualizado correctamente.",
                     Null, Null, Null, Null, Null))
    ELSE Served("", "", <<"commit", "rollback">>, 404,
                Body("No se encontro un registro de contactabilidad",
                     Null, Null, Null, Null, Null))

\* handle_contactabilidad_resource for PATCH /contactabilidad/{id}/requerido.
\* parsed is the body as json.loads left it: the rows of an object are its
\* items in the order sent.  rows_affected is what
\* update_contactabilidad_fields returned, fault says that it raised.
handle_contactabilidad_resource(id_cliente, parsed, rows_affected, fault) ==
    LET ALLOWED_FIELDS ==
            {"requerido_correo", "requerido_notificacion", "requerido_celular"}
        rejected == {k \in 1..Len(parsed.rows) :
                        \/ parsed.rows[k].key \notin ALLOWED_FIELDS
                        \/ parsed.rows[k].value.t # "bool"}
        first == CHOOSE k \in rejected : \A j \in rejected : k <= j
        Answer(statusCode, mensaje) ==
            Served("", "", <<>>, statusCode,
                   Body(mensaje, Null, Null, Null, Null, Null))
    IN IF id_cliente \notin PathIds
       THEN Answer(400, "ID de cliente no valido.")
       ELSE IF parsed.kind = "malformed"
       THEN Served("ValueError", "Expecting value", <<>>, 0, NoBody)
       ELSE IF parsed.kind # "object" \/ parsed.rows = <<>>
       THEN Answer(400, "El cuerpo de la solicitud debe ser un objeto JSON no vacio.")
       ELSE IF rejected # {}
       THEN IF parsed.rows[first].key \notin ALLOWED_FIELDS
            THEN Answer(400, "El campo no es actualizable.")
            ELSE Answer(400, "El valor debe ser un booleano.")
       ELSE IF fault
       THEN Served("Exception", "", <<>>, 0, NoBody)
       ELSE IF rows_affected > 0
       THEN Served("", "", <<"commit">>, 200,
                   Body("El estado de requerido ha sido actualizado correctamente.",
                        Null, Null, Null, Null, Null))
       ELSE Served("", "", <<"rollback">>, 404,
                   Body("No se encontro un registro de contactabilidad",
                        Null, Null, Null, Null, Null))

\* query_params['id_cliente'] = id_cliente, leaving what was sent in place
PathParams_KeepsSent(sent, id_cliente) ==
    IF "id_cliente" \in DOMAIN sent THEN sent ELSE Put(sent, "id_cliente", id_cliente)

\* query_params['id_cliente'] = id_cliente
PathParams(sent, id_cliente) == Put(sent, "id_cliente", id_cliente)

\* handle_transaction_history once get_paginated_data ended; the body of the
\* 200 is what get_paginated_data returned
HistoryResponse(response_body) ==
    IF response_body.status = "raised"
    THEN Served("ValueError", INVALID_LITERAL_MSG, <<>>, 0, NoBody)
    ELSE IF response_body.totalRecords = 0
    THEN Served("", "", <<>>, 404,
                Body(NO_TRANSACTION_HISTORY_MSG, Null, Null, Null, Null, Null))
    ELSE Served("", "", <<>>, 200, NoBody)

handle_transaction_history(sent, id_cliente, total_records) ==
    HistoryResponse(get_paginated_data(historial_transacciones,
                                       PathParams(sent, id_cliente), total_records))

\* the table once the connection is closed: what was done before a commit
\* stays, what was done after the last commit, or without one, is lost
Durable(db_before, db_after, calls) ==
    IF \E k \in 1..Len(calls) : calls[k] = "commit" THEN db_after ELSE db_before

----------------------------------------------------------------------------
(* Requests: the batches the handlers are given                            *)

COD1 == Str(<<"C", "1">>)
COD2 == Str(<<"C", "2">>)

\* an Add row with every required field valid
FullRow(codigo) ==
    [accion |-> A,
     primer_nombre |-> Str(<<"A", "n", "a">>),
     primer_apellido |-> Str(<<"P", "a", "z">>),
     tipo_identificacion |-> Str(<<"0", "1">>),
     numero_identificacion |-> Str(<<"7">>),
     fecha_afiliacion |-> Str(<<"2", "0", "2", "3", "-", "0", "1", "-", "0", "1">>),
     codigo_identificacion |-> codigo]

Without(item, k) == [x \in DOMAIN item \ {k} |-> item[x]]

AddItems ==
    { FullRow(COD1), FullRow(COD2),
      Put(Without(FullRow(COD1), "primer_apellido"),
          "tipo_identificacion", Str(<<"2", "1">>)) }

ModifyItems ==
    { [accion |-> M, codigo_identificacion |-> COD1,
       primer_nombre |-> Str(<<"B", "e", "a">>)],
      [accion |-> M, codigo_identificacion |-> COD1] }

DeleteItems ==
    { [accion |-> E, codigo_identificacion |-> COD1],
      [accion |-> E, codigo_identificacion |-> Null] }

\* rows that pass the structural check of handle_post_clientes
Items == AddItems \cup ModifyItems \cup DeleteItems

\* rows validate_actions rejects
BadActionItems ==
    { [accion |-> Str(<<"X">>), codigo_identificacion |-> COD1],
      [codigo_identificacion |-> COD2] }

\* rows for the checks validate_data alone makes: a tipo_identificacion of two
\* superscript digits, and a Modify row with a blank identifier, a
\* tipo_identificacion out of range and a date with the wrong separators
FormatItems ==
    { Put(FullRow(COD2), "tipo_identificacion", Str(<<Sup2, Sup2>>)),
      [accion |-> M, codigo_identificacion |-> Str(<<" ">>),
       tipo_identificacion |-> Str(<<"9", "9">>),
       fecha_afiliacion |-> Str(<<"2", "0", "2", "3", "/", "0", "1", "/", "0", "1">>)] }

\* the rows handed to the validators of one row: every action with every
\* combination of these values of its fields; Absent: the row has no such key
ItemInputs ==
    { [k \in {x \in DOMAIN f : f[x] # Absent} |-> f[k]] :
        f \in [accion : Actions,
               primer_nombre : {Absent, Str(<<"A", "n", "a">>), Str(<<" ">>)},
               primer_apellido : {Absent, Str(<<"P", "a", "z">>)},
               tipo_identificacion :
                   { Absent, Null, Str(<<>>), Str(<<"0", "1">>), Str(<<"2", "0">>),
                     Str(<<"0", "0">>), Str(<<"2", "1">>), Str(<<"9", "9">>),
                     Str(<<"1">>), Str(<<"a", "b">>), Str(<<"0", "0", "1">>),
                     Str(<<" ", "5">>), Str(<<Sup2, Sup2>>), Str(<<"1", Sup2>>) },
               numero_identificacion : {Absent, Str(<<"7">>)},
               fecha_afiliacion :
                   { Absent,
                     Str(<<"2", "0", "2", "3", "-", "0", "1", "-", "0", "1">>),
                     Str(<<"2", "0", "2", "3", "/", "0", "1", "/", "0", "1">>) },
               codigo_identificacion :
                   {Absent, Null, Str(<<>>), Str(<<" ", "\t">>), COD1}] }

NoItem == [k \in {} |-> Null]

NotChecked ==
    [validate_item_fields |-> NoErrors,
     validate_tipo_identificacion |-> [exc |-> "", errors |-> NoErrors],
     validate_fecha_afiliacion |-> NoErrors]

BatchesOf(rows) == UNION {[1..n -> rows] : n \in 0..MaxBatch}

NoResult ==
    [status |-> "none", inserted_count |-> 0, updated_count |-> 0,
     deleted_count |-> 0, valid_count |-> 0, errors |-> <<>>]

NoResponse == [statusCode |-> 0, body |-> NoBody]

NoParams == [k \in {} |-> Absent]

PageValues ==
    { Absent, Str(<<>>), Str(<<"a", "b", "c">>), Str(<<"-", "3">>), Str(<<"0">>),
      Str(<<"1">>), Str(<<"3">>), Str(<<"1", "2">>), Str(<<" ", "2">>),
      Str(<<Sup2>>) }

SearchValues ==
    { Absent, Str(<<>>), Str(<<" ", "\t">>), Str(<<" ", "J", "u", "a", "n", " ">>),
      Str(<<"a", "N">>) }

\* the query parameters of a GET: page, two search fields, id_cliente and a
\* key the descriptor does not know
QueryParams ==
    { [k \in {x \in DOMAIN f : f[x] # Absent} |-> f[k]] :
        f \in [page : PageValues,
               primer_nombre : SearchValues,
               numero_celular : {Absent, Str(<<>>), Str(<<"3", "0", "0">>)},
               id_cliente : {Absent, uuid4},
               orden : {Absent, Str(<<"x">>)}] }

\* the query parameters of a GET of the history: page, a search field, an
\* id_cliente and a field only the clientes descriptor searches
HistoryParams ==
    { [k \in {x \in DOMAIN f : f[x] # Absent} |-> f[k]] :
        f \in [page : {Absent, Str(<<"2">>), Str(<<Sup2>>)},
               numero_tarjeta : {Absent, Str(<<" ">>), Str(<<"4", "5">>)},
               hora : {Absent, Str(<<"1", "0">>)},
               id_cliente : {Absent} \cup PathIds,
               primer_nombre : {Absent, Str(<<"a", "N">>)}] }

\* two orders in which the keys of a query may have been sent: an order of
\* all the keys a query can hold, and its reverse
KeyOrders(params) ==
    LET keys == << "page", "primer_nombre", "numero_celular", "numero_tarjeta",
                   "hora", "id_cliente", "orden" >>
        reversed == [k \in 1..Len(keys) |-> keys[Len(keys) + 1 - k]]
    IN {SelectSeq(keys, LAMBDA k : k \in DOMAIN params),
        SelectSeq(reversed, LAMBDA k : k \in DOMAIN params)}

NoEvent == [queryStringParameters |-> NoParams, order |-> <<>>, id_cliente |-> Null]

\* the bodies POST /clientes/validaciones is sent
ValidationBodies ==
    {ObjectBody}
      \cup {ListBody(b) : b \in BatchesOf(Items \cup BadActionItems \cup FormatItems)}

\* the bodies PATCH /contactabilidad/{id}/requerido is sent: text that is
\* no JSON, a list, and objects of up to MaxFields items, whose keys are an
\* updatable field or not and whose values are a bool or a str
PatchBodies ==
    LET pairs == [key : {"requerido_correo", "requerido_celular", "otro"},
                  value : {[t |-> "bool", s |-> <<"True">>], Str(<<"s", "i">>)}]
        objects == UNION {[1..n -> pairs] : n \in 0..MaxFields}
    IN {[kind |-> "malformed", rows |-> <<>>], ListBody(<<>>)}
         \cup {[kind |-> "object", rows |-> o] :
                  o \in {x \in objects :
                            \A j, k \in 1..Len(x) : x[j].key = x[k].key => j = k}}

\* the bodies POST /clientes is sent
Bodies == {ObjectBody} \cup {ListBody(b) : b \in BatchesOf(Items \cup BadActionItems)}

\* identifiers the statements of a log inserted
InsertedBy(log) ==
    {log[k].codigo : k \in {j \in 1..Len(log) :
                               log[j].kind = "INSERT" /\ ~log[j].raised}}

----------------------------------------------------------------------------
(* Actions *)

Init ==
    /\ store = EmptyTable
    /\ pc = "idle"
    /\ op = "none"
    /\ data = <<>>
    /\ storeBefore = EmptyTable
    /\ result = NoResult
    /\ stmts = <<>>
    /\ prevInserted = {}
    /\ response = NoResponse
    /\ conn = <<>>
    /\ body = ListBody(<<>>)
    /\ the_item = NoItem
    /\ checked = NotChecked
    /\ event = NoEvent
    /\ query_params = NoParams
    /\ paged = NoPage

\* rows process_valid_client_data executes: those without a validation error
Runnable(batch, v) ==
    IF v.raised THEN {}
    ELSE {i \in 1..Len(batch) : ~HasFila(v.errors, i)}

\* what a call of validate_and_process_client_data leaves behind
ProcessEnds(batch, r) ==
    /\ RowCount(r.db) <= MaxRows
    /\ store' = r.db
    /\ data' = batch
    /\ storeBefore' = store
    /\ stmts' = r.stmts
    /\ result' =
         IF r.raised THEN [NoResult EXCEPT !.status = "raised"]
         ELSE [status |-> "returned",
               inserted_count |-> r.inserted_count,
               updated_count |-> r.updated_count,
               deleted_count |-> r.deleted_count,
               valid_count |-> 0,
               errors |-> r.errors]

\* validate_and_process_client_data called with a batch whose rows all
\* carry an action
ProcessBatch ==
    /\ pc = "idle"
    /\ \E batch \in BatchesOf(Items) :
       \E vfault \in 0..Len(batch) :
         /\ vfault # 0 =>
                ChecksExistence(batch[vfault], Get(batch[vfault], "accion"))
         /\ \E faults \in SUBSET Runnable(batch,
                                          validate_client_data(store, batch, vfault)) :
               ProcessEnds(batch,
                   validate_and_process_client_data(store, batch, vfault, faults))
    /\ pc' = "done"
    /\ op' = "process"
    /\ UNCHANGED <<prevInserted, response, conn, body, the_item, checked, event,
                   query_params, paged>>

\* what a call of validate_and_process_client_data or validate_data through
\* a handler returned
CallResult(h) ==
    IF ~h.called THEN NoResult
    ELSE IF h.ret.raised THEN [NoResult EXCEPT !.status = "raised"]
    ELSE [NoResult EXCEPT !.status = "returned", !.errors = h.ret.errors]

\* what a POST /clientes request leaves behind
PostClientesEnds(parsed, h, served) ==
    /\ RowCount(h.ret.db) <= MaxRows
    /\ store' = Durable(store, h.ret.db, served.conn)
    /\ body' = parsed
    /\ data' = parsed.rows
    /\ storeBefore' = store
    /\ stmts' = h.ret.stmts
    /\ result' = IF h.called /\ ~h.ret.raised
                 THEN [CallResult(h) EXCEPT
                         !.inserted_count = h.ret.inserted_count,
                         !.updated_count = h.ret.updated_count,
                         !.deleted_count = h.ret.deleted_count]
                 ELSE CallResult(h)
    /\ response' = [statusCode |-> served.statusCode, body |-> served.body]
    /\ conn' = served.conn

ServeClientes(parsed, h) ==
    PostClientesEnds(parsed, h, handle_main_request(handle_client_data_post(h)))

\* lambda_handler for POST /clientes
PostClientes ==
    /\ pc = "idle"
    /\ \E parsed \in Bodies :
       \E vfault \in 0..Len(parsed.rows) :
         /\ vfault # 0 =>
                /\ StructuralError(parsed) = ""
                /\ ChecksExistence(parsed.rows[vfault],
                                   Get(parsed.rows[vfault], "accion"))
         /\ \E faults \in SUBSET Runnable(parsed.rows,
                              validate_client_data(store, parsed.rows, vfault)) :
               /\ StructuralError(parsed) # "" => faults = {}
               /\ ServeClientes(parsed,
                                handle_post_clientes(store, parsed, vfault, faults))
    /\ pc' = "done"
    /\ op' = "post_clientes"
    /\ UNCHANGED <<prevInserted, the_item, checked, event, query_params, paged>>

\* what a POST /clientes/validaciones request leaves behind
PostValidacionesEnds(parsed, h, served) ==
    /\ body' = parsed
    /\ data' = parsed.rows
    /\ stmts' = h.ret.stmts
    /\ result' = IF h.called /\ ~h.ret.raised
                 THEN [CallResult(h) EXCEPT !.valid_count = h.ret.valid_count]
                 ELSE CallResult(h)
    /\ response' = [statusCode |-> served.statusCode, body |-> served.body]
    /\ conn' = served.conn

ServeValidaciones(parsed, h) ==
    PostValidacionesEnds(parsed, h,
                         handle_main_request(handle_validation_post(h)))

\* lambda_handler for POST /clientes/validaciones
PostValidaciones ==
    /\ pc = "idle"
    /\ \E parsed \in ValidationBodies :
       \E vfault \in 0..Len(parsed.rows) :
         /\ vfault # 0 =>
                /\ StructuralError(parsed) = ""
                /\ QueriesDatabase(parsed.rows, parsed.rows[vfault],
                                   Get(parsed.rows[vfault], "accion"))
         /\ ServeValidaciones(parsed,
                              handle_post_validaciones(store, parsed, vfault))
    /\ storeBefore' = store
    /\ pc' = "done"
    /\ op' = "post_validaciones"
    /\ UNCHANGED <<store, prevInserted, the_item, checked, event, query_params, paged>>

\* what a call of validate_data leaves behind
ValidateEnds(batch, r) ==
    /\ data' = batch
    /\ stmts' = r.stmts
    /\ result' =
         IF r.raised THEN [NoResult EXCEPT !.status = "raised"]
         ELSE [NoResult EXCEPT !.status = "returned",
                               !.valid_count = r.valid_count,
                               !.errors = r.errors]

\* validate_data called with a batch, whatever the actions of its rows
ValidateBatch ==
    /\ pc = "idle"
    /\ \E batch \in BatchesOf(Items \cup BadActionItems \cup FormatItems) :
       \E vfault \in 0..Len(batch) :
         /\ vfault # 0 =>
                /\ HasValidAction(batch[vfault])
                /\ QueriesDatabase(batch, batch[vfault],
                                   Get(batch[vfault], "accion"))
         /\ ValidateEnds(batch, validate_data(store, batch, vfault))
    /\ storeBefore' = store
    /\ pc' = "done"
    /\ op' = "validate"
    /\ UNCHANGED <<store, prevInserted, response, conn, body, the_item, checked,
                   event, query_params, paged>>

\* the request ends: what it held is dropped, the table stays
EndRequest ==
    /\ pc = "done"
    /\ pc' = "idle"
    /\ op' = "none"
    /\ data' = <<>>
    /\ storeBefore' = EmptyTable
    /\ result' = NoResult
    /\ stmts' = <<>>
    /\ prevInserted' = IF op \in {"process", "post_clientes"}
                       THEN InsertedBy(stmts) \cap Codigos(store)
                       ELSE prevInserted
    /\ response' = NoResponse
    /\ conn' = <<>>
    /\ body' = ListBody(<<>>)
    /\ the_item' = NoItem
    /\ checked' = NotChecked
    /\ event' = NoEvent
    /\ query_params' = NoParams
    /\ paged' = NoPage
    /\ UNCHANGED store

\* lambda_handler for PATCH /contactabilidad/{id_cliente}/requerido; the
\* statement log holds the UPDATE when update_contactabilidad_fields was
\* called, with the rowcount it returned
PatchContactabilidad ==
    /\ pc = "idle"
    /\ \E id_cliente \in PathIds \cup {Str(<<"x">>)} :
       \E parsed \in PatchBodies :
       \E rows_affected \in 0..MaxAffected :
       \E fault \in BOOLEAN :
         /\ fault => rows_affected = 0
         /\ event' = [NoEvent EXCEPT !.id_cliente = id_cliente]
         /\ body' = parsed
         \* the UPDATE is reached by the requests a positive rowcount answers 200
         /\ stmts' =
              IF handle_contactabilidad_resource(id_cliente, parsed, 1, FALSE)
                   .statusCode = 200
              THEN <<Stmt("UPDATE_CONTACTABILIDAD", 0, id_cliente, fault, rows_affected)>>
              ELSE <<>>
         /\ response' =
              [statusCode |->
                   handle_main_request(handle_contactabilidad_resource(
                       id_cliente, parsed, rows_affected, fault)).statusCode,
               body |->
                   handle_main_request(handle_contactabilidad_resource(
                       id_cliente, parsed, rows_affected, fault)).body]
         /\ conn' = handle_main_request(handle_contactabilidad_resource(
                        id_cliente, parsed, rows_affected, fault)).conn
    /\ pc' = "done"
    /\ op' = "patch_contactabilidad"
    /\ storeBefore' = store
    /\ UNCHANGED <<store, data, result, prevInserted, the_item, checked,
                   query_params, paged>>

\* lambda_handler for any request, when conexion_bd returned the connection
\* and conn.cursor() raises: no response is built
CursorFails ==
    /\ pc = "idle"
    /\ response' = [statusCode |-> handle_main_request_no_cursor.statusCode,
                    body |-> handle_main_request_no_cursor.body]
    /\ conn' = handle_main_request_no_cursor.conn
    /\ pc' = "done"
    /\ op' = "no_cursor"
    /\ storeBefore' = store
    /\ UNCHANGED <<store, data, result, stmts, prevInserted, body, the_item,
                   checked, event, query_params, paged>>

Next ==
    \/ ProcessBatch
    \/ PatchContactabilidad
    \/ CursorFails
    \/ ValidateBatch
    \/ PostClientes
    \/ PostValidaciones
    \/ EndRequest

Spec == Init /\ [][Next]_vars

\* GET /clientes: a call of get_paginated_data for the clientes resource
GetPaginatedData ==
    /\ pc = "idle"
    /\ \E params \in QueryParams :
       \E order \in KeyOrders(params) :
       \E total_records \in 0..MaxRecords :
         /\ event' = [queryStringParameters |-> params, order |-> order,
                      id_cliente |-> Null]
         /\ query_params' = params
         /\ paged' = get_paginated_data(clientes, params, total_records)
    /\ pc' = "done"
    /\ op' = "get"
    /\ UNCHANGED <<store, data, storeBefore, result, stmts, prevInserted,
                   response, conn, body, the_item, checked>>

\* GET /historial_transaccion/{id_cliente}
GetHistorial ==
    /\ pc = "idle"
    /\ \E sent \in HistoryParams :
       \E order \in KeyOrders(sent) :
       \E id_cliente \in PathIds :
       \E total_records \in 0..MaxRecords :
         /\ event' = [queryStringParameters |-> sent, order |-> order,
                      id_cliente |-> id_cliente]
         /\ query_params' = PathParams(sent, id_cliente)
         /\ paged' = get_paginated_data(historial_transacciones,
                                        PathParams(sent, id_cliente), total_records)
         /\ response' =
              [statusCode |->
                   handle_main_request(handle_transaction_history(
                       sent, id_cliente, total_records)).statusCode,
               body |->
                   handle_main_request(handle_transaction_history(
                       sent, id_cliente, total_records)).body]
         /\ conn' = handle_main_request(handle_transaction_history(
                        sent, id_cliente, total_records)).conn
    /\ pc' = "done"
    /\ op' = "get_historial"
    /\ UNCHANGED <<store, data, storeBefore, result, stmts, prevInserted, body,
                   the_item, checked>>

PageNext == GetPaginatedData \/ GetHistorial \/ EndRequest

\* get_paginated_data applied to every query and every count
PageSpec == Init /\ [][PageNext]_vars

\* the validators of one row, each applied to the row on its own
ValidateItem ==
    /\ pc = "idle"
    /\ \E input \in ItemInputs :
         /\ the_item' = input
         /\ checked' =
              [validate_item_fields |-> validate_item_fields(input, input["accion"]),
               validate_tipo_identificacion |->
                   validate_tipo_identificacion(input, input["accion"]),
               validate_fecha_afiliacion |->
                   validate_fecha_afiliacion(input, input["accion"])]
    /\ pc' = "done"
    /\ op' = "item"
    /\ UNCHANGED <<store, data, storeBefore, result, stmts, prevInserted,
                   response, conn, body, event, query_params, paged>>

ItemNext == ValidateItem \/ EndRequest

\* the validators of one row applied to every row of ItemInputs
ItemSpec == Init /\ [][ItemNext]_vars

----------------------------------------------------------------------------
(* What a finished call shows *)

ProcessDone == pc = "done" /\ op = "process"
ProcessReturned == ProcessDone /\ result.status = "returned"
ValidateReturned == pc = "done" /\ op = "validate" /\ result.status = "returned"

Filas(errors) == {errors[k].fila : k \in 1..Len(errors)}

HasError(fila, key, msg) ==
    \E k \in 1..Len(result.errors) :
        /\ result.errors[k].fila = fila
        /\ key \in DOMAIN result.errors[k].errors
        /\ result.errors[k].errors[key] = msg

\* positions in the statement log of the statements of the given kinds for a row
StmtsOf(kinds, fila) ==
    {k \in 1..Len(stmts) : stmts[k].kind \in kinds /\ stmts[k].fila = fila}

Mutating == {"INSERT", "UPDATE", "DELETE"}

\* rows whose statement of that kind executed and affected at least one row
SucceededFilas(kinds) ==
    {stmts[k].fila : k \in {j \in 1..Len(stmts) :
        stmts[j].kind \in kinds /\ ~stmts[j].raised /\ stmts[j].rowcount > 0}}

\* rows whose mutating statement raised or affected no row
FailedFilas ==
    {stmts[k].fila : k \in {j \in 1..Len(stmts) :
        stmts[j].kind \in Mutating /\ (stmts[j].raised \/ stmts[j].rowcount = 0)}}

NoStatementRaised == \A k \in 1..Len(stmts) : ~stmts[k].raised

\* the row carries a business identifier: a value that is not null or blank
HasCodigo(item) ==
    /\ "codigo_identificacion" \in DOMAIN item
    /\ ~IsMissing(item["codigo_identificacion"])

IsAction(item, action) == Get(item, "accion") = action

\* an Add row with every required field present
IsCompleteAdd(item) ==
    IsAction(item, A) /\ \A f \in required_fields : ~IsMissing(Get(item, f))

----------------------------------------------------------------------------
(* Claims *)

\* C1: when validate_and_process_client_data returns, inserted_count +
\* updated_count + deleted_count + (number of distinct rows with an entry in
\* errors) = len(batch); no row is both counted and reported, and no row is
\* reported twice.
C1_CountsAndErrorsPartitionBatch ==
    ProcessReturned =>
        /\ result.inserted_count + result.updated_count + result.deleted_count
             + Cardinality(Filas(result.errors)) = Len(data)
        /\ SucceededFilas(Mutating) \cap Filas(result.errors) = {}
        /\ Cardinality(SucceededFilas(Mutating)) =
             result.inserted_count + result.updated_count + result.deleted_count
        /\ Len(result.errors) = Cardinality(Filas(result.errors))

C1_Witness ==
    /\ ProcessReturned
    /\ Len(data) = 2
    /\ result.inserted_count = 1
    /\ Len(result.errors) = 1

\* C2: in validate_and_process_client_data, an Add row whose
\* codigo_identificacion is already in the store when the batch arrives gets
\* an "already exists" error and no INSERT is issued or counted for it.
C2_AddOfExistingIsRejected ==
    ProcessReturned =>
        \A i \in 1..Len(data) :
            (/\ IsAction(data[i], A)
             /\ HasCodigo(data[i])
             /\ MatchCount(storeBefore, data[i]["codigo_identificacion"]) > 0)
            => /\ HasError(i, "codigo_identificacion", MsgYaExiste)
               /\ StmtsOf({"INSERT"}, i) = {}
               /\ i \notin SucceededFilas({"INSERT"})

\* C3: in validate_and_process_client_data, a Modify row whose identifier is
\* not in the store gets a codigo_identificacion error saying "no existe", no
\* UPDATE is issued for it, and updated_count counts only rows whose UPDATE
\* succeeded, so it adds nothing to it.
C3_ModifyOfAbsentIsRejected ==
    ProcessDone =>
        \A i \in 1..Len(data) :
            (/\ IsAction(data[i], M)
             /\ HasCodigo(data[i])
             /\ MatchCount(storeBefore, data[i]["codigo_identificacion"]) = 0)
            => /\ StmtsOf({"UPDATE"}, i) = {}
               /\ result.status = "returned" =>
                    /\ HasError(i, "codigo_identificacion", MsgNoExiste)
                    /\ result.updated_count =
                         Cardinality(SucceededFilas({"UPDATE"}) \ {i})

C3_Witness ==
    /\ ProcessReturned
    /\ \E i \in 1..Len(data) :
          /\ IsAction(data[i], M)
          /\ HasCodigo(data[i])
          /\ MatchCount(storeBefore, data[i]["codigo_identificacion"]) = 0
          /\ HasError(i, "codigo_identificacion", MsgNoExiste)

\* C4: in validate_data, two Add rows of one batch that share a
\* codigo_identificacion both get the codigo_identificacion error "duplicated
\* in the request", whatever their positions and whatever the store holds,
\* and neither is among the rows valid_count counts.
C4_DuplicateAddsBothRejected ==
    ValidateReturned =>
        \A i, j \in 1..Len(data) :
            (/\ i # j
             /\ IsAction(data[i], A) /\ IsAction(data[j], A)
             /\ HasCodigo(data[i])
             /\ Get(data[j], "codigo_identificacion") =
                  data[i]["codigo_identificacion"])
            => /\ HasError(i, "codigo_identificacion", MsgDuplicado)
               /\ HasError(j, "codigo_identificacion", MsgDuplicado)
               /\ result.valid_count =
                    Cardinality((1..Len(data)) \ Filas(result.errors))
               /\ result.valid_count <= Len(data) - 2

\* the shared identifier is also in the store: the duplicate error still wins
C4_Witness ==
    /\ ValidateReturned
    /\ Len(data) = 2
    /\ IsCompleteAdd(data[1]) /\ IsCompleteAdd(data[2])
    /\ data[1]["codigo_identificacion"] = data[2]["codigo_identificacion"]
    /\ MatchCount(store, data[1]["codigo_identificacion"]) > 0
    /\ HasError(1, "codigo_identificacion", MsgDuplicado)
    /\ HasError(2, "codigo_identificacion", MsgDuplicado)
    /\ result.valid_count = 0

\* C5: starting from a store with at most one row per codigo_identificacion,
\* after any sequence of validate_and_process_client_data calls the store
\* holds at most one row per codigo_identificacion.
C5_StoreKeepsIdentifiersUnique ==
    \A row \in DOMAIN store : MatchCount(store, row["codigo_identificacion"]) <= 1

\* a complete Add row at i for an identifier absent from the store, and a
\* Modify row for the same identifier at j, later in the batch
AddThenModify(i, j) ==
    /\ i < j
    /\ IsCompleteAdd(data[i])
    /\ MatchCount(storeBefore, data[i]["codigo_identificacion"]) = 0
    /\ IsAction(data[j], M)
    /\ Get(data[j], "codigo_identificacion") = data[i]["codigo_identificacion"]

\* C6 as stated: an Add row for an identifier absent from the store and a later
\* Modify row for it in the same batch both succeed (when the database raises
\* on no statement): inserted_count and updated_count are each incremented and
\* neither row has an error.
C6_AddThenModifyBothSucceed ==
    (ProcessReturned /\ NoStatementRaised) =>
        \A i, j \in 1..Len(data) :
            AddThenModify(i, j)
            => /\ i \in SucceededFilas({"INSERT"})
               /\ j \in SucceededFilas({"UPDATE"})
               /\ result.inserted_count >= 1
               /\ result.updated_count >= 1
               /\ {i, j} \cap Filas(result.errors) = {}

\* C6 as amended: every row is validated against the store as it was when the
\* batch arrived, so the Modify row is rejected with a codigo_identificacion
\* error "no existe" and no UPDATE is issued for it; the Add row is still
\* executed, and is counted with no error when its INSERT does not raise.
C6_ModifyAfterAddInBatchIsRejected ==
    ProcessReturned =>
        \A i, j \in 1..Len(data) :
            AddThenModify(i, j)
            => /\ HasError(j, "codigo_identificacion", MsgNoExiste)
               /\ StmtsOf({"UPDATE"}, j) = {}
               /\ j \notin SucceededFilas({"UPDATE"})
               /\ StmtsOf({"INSERT"}, i) # {}
               /\ (\A k \in StmtsOf({"INSERT"}, i) : ~stmts[k].raised)
                    => /\ i \in SucceededFilas({"INSERT"})
                       /\ i \notin Filas(result.errors)
                       /\ result.inserted_count >= 1

C6_Witness ==
    /\ ProcessReturned
    /\ Len(data) = 2
    /\ AddThenModify(1, 2)
    /\ result.inserted_count = 1
    /\ result.updated_count = 0
    /\ MatchCount(store, data[1]["codigo_identificacion"]) = 1

\* C7: after a call inserted a row with identifier c, a Modify row for c in
\* the following call (carrying another column, with no Delete row for c
\* before it in its batch and no statement raising) passes the existence
\* check, affects exactly one stored row and is counted in updated_count with
\* no error.
C7_ModifyAfterAddAffectsOneRow ==
    (ProcessReturned /\ NoStatementRaised) =>
        \A j \in 1..Len(data) :
            (/\ IsAction(data[j], M)
             /\ HasCodigo(data[j])
             /\ data[j]["codigo_identificacion"] \in prevInserted
             /\ DOMAIN data[j] \cap (ColumnSet \ {"codigo_identificacion"}) # {}
             /\ \A i \in 1..(j - 1) :
                   ~(/\ IsAction(data[i], E)
                     /\ Get(data[i], "codigo_identificacion") =
                          data[j]["codigo_identificacion"]))
            => /\ ~HasError(j, "codigo_identificacion", MsgNoExiste)
               /\ \E k \in StmtsOf({"UPDATE"}, j) : stmts[k].rowcount = 1
               /\ j \in SucceededFilas({"UPDATE"})
               /\ j \notin Filas(result.errors)

\* C8: for a batch of one complete Add row for an identifier absent from the
\* store followed by one Modify row for an identifier absent from the store
\* (the INSERT not raising), the call returns inserted_count = 1,
\* updated_count = 0, deleted_count = 0 and exactly one error, at fila 2,
\* keyed codigo_identificacion and saying "no existe"; the Add is applied.
C8_AddAppliedBesideRejectedModify ==
    (/\ ProcessReturned
     /\ NoStatementRaised
     /\ Len(data) = 2
     /\ IsCompleteAdd(data[1])
     /\ MatchCount(storeBefore, data[1]["codigo_identificacion"]) = 0
     /\ IsAction(data[2], M)
     /\ HasCodigo(data[2])
     /\ MatchCount(storeBefore, data[2]["codigo_identificacion"]) = 0)
    => /\ result.inserted_count = 1
       /\ result.updated_count = 0
       /\ result.deleted_count = 0
       /\ result.errors =
            <<ErrorEntry(2, Put(NoErrors, "codigo_identificacion", MsgNoExiste))>>
       /\ MatchCount(store, data[1]["codigo_identificacion"]) = 1
       /\ RowCount(store) = RowCount(storeBefore) + 1

\* the Modify row names another identifier than the Add row
C8_Witness ==
    /\ ProcessReturned
    /\ NoStatementRaised
    /\ Len(data) = 2
    /\ IsCompleteAdd(data[1])
    /\ IsAction(data[2], M)
    /\ HasCodigo(data[2])
    /\ data[2]["codigo_identificacion"] # data[1]["codigo_identificacion"]
    /\ MatchCount(storeBefore, data[1]["codigo_identificacion"]) = 0
    /\ MatchCount(storeBefore, data[2]["codigo_identificacion"]) = 0
    /\ result.inserted_count = 1
    /\ MatchCount(store, data[1]["codigo_identificacion"]) = 1

\* rows the call did not reject at validation
ExecutableFilas == (1..Len(data)) \ Filas(validate_client_data(storeBefore, data, 0).errors)

\* C9: in process_valid_client_data, after a row's execution failed (its
\* statement raised or affected no row), every later row that passed
\* validation still has its own statement attempted, and is counted or
\* reported on its own outcome.
C9_FailureDoesNotStopLaterRows ==
    ProcessReturned =>
        \A i, j \in ExecutableFilas :
            (i < j /\ i \in FailedFilas)
            => /\ Cardinality(StmtsOf(Mutating, j)) = 1
               /\ \/ /\ j \in SucceededFilas(Mutating)
                     /\ j \notin Filas(result.errors)
                  \/ /\ j \in FailedFilas
                     /\ \E msg \in {MsgProcesar, MsgActualizar, MsgEliminar} :
                           HasError(j, "general", msg)

\* the first row's statement raised and the second row was inserted
C9_Witness ==
    /\ ProcessReturned
    /\ Len(data) = 2
    /\ ExecutableFilas = {1, 2}
    /\ \E k \in StmtsOf(Mutating, 1) : stmts[k].raised
    /\ 2 \in SucceededFilas({"INSERT"})
    /\ result.inserted_count = 1
    /\ Filas(result.errors) = {1}

\* C10: process_client_item never raises for a row tagged A, M or E: when
\* the row's INSERT, UPDATE or DELETE raises, the call still returns, the row
\* has the error {fila: index + 1, errors: {general: ...}} in the returned
\* error list, and it is counted in none of the three counters.
C10_ExecutionExceptionBecomesGeneralError ==
    (ProcessDone /\ \A k \in 1..Len(stmts) :
                        stmts[k].kind = "SELECT" => ~stmts[k].raised)
    => /\ result.status = "returned"
       /\ \A k \in 1..Len(stmts) :
             (stmts[k].kind \in Mutating /\ stmts[k].raised)
             => /\ \E e \in 1..Len(result.errors) :
                      result.errors[e] =
                          ErrorEntry(stmts[k].fila,
                                     Put(NoErrors, "general", MsgProcesar))
                /\ stmts[k].fila \notin SucceededFilas(Mutating)
       /\ result.inserted_count = Cardinality(SucceededFilas({"INSERT"}))
       /\ result.updated_count = Cardinality(SucceededFilas({"UPDATE"}))
       /\ result.deleted_count = Cardinality(SucceededFilas({"DELETE"}))

\* an INSERT and a DELETE raised in one batch
C10_Witness ==
    /\ ProcessReturned
    /\ \E k \in 1..Len(stmts) : stmts[k].kind = "INSERT" /\ stmts[k].raised
    /\ \E k \in 1..Len(stmts) : stmts[k].kind = "DELETE" /\ stmts[k].raised
    /\ result.inserted_count = 0
    /\ result.deleted_count = 0
    /\ Len(result.errors) = 2

PostClientesDone == pc = "done" /\ op = "post_clientes"
PostValidacionesDone == pc = "done" /\ op = "post_validaciones"

\* the error entries of the result for a row
EntriesOf(fila) == {k \in 1..Len(result.errors) : result.errors[k].fila = fila}

\* the errors validate_client_item finds for a row against the store as the
\* batch found it
ValidationErrorsOf(i) ==
    validate_client_item(storeBefore, data[i], Get(data[i], "accion"))

\* C11: a Modify or Delete row that passed validation and whose statement
\* affected zero rows has exactly one error entry, {fila: its 1-based index,
\* errors: {general: "could not update" / "could not delete"}}, and is
\* counted neither in updated_count nor in deleted_count.
C11_ZeroRowsAffectedIsGeneralError ==
    ProcessReturned =>
        /\ \A k \in 1..Len(stmts) :
              (/\ stmts[k].kind \in {"UPDATE", "DELETE"}
               /\ ~stmts[k].raised
               /\ stmts[k].rowcount = 0)
              => /\ Cardinality(EntriesOf(stmts[k].fila)) = 1
                 /\ \A e \in EntriesOf(stmts[k].fila) :
                       result.errors[e] =
                           ErrorEntry(stmts[k].fila,
                               Put(NoErrors, "general",
                                   IF stmts[k].kind = "UPDATE" THEN MsgActualizar
                                   ELSE MsgEliminar))
                 /\ stmts[k].fila \notin SucceededFilas(Mutating)
        /\ result.updated_count = Cardinality(SucceededFilas({"UPDATE"}))
        /\ result.deleted_count = Cardinality(SucceededFilas({"DELETE"}))

\* a Delete removed the row a later Modify of the batch addresses
C11_Witness ==
    /\ ProcessReturned
    /\ Len(data) = 2
    /\ IsAction(data[1], E) /\ IsAction(data[2], M)
    /\ ValidationErrorsOf(2) = NoErrors
    /\ \E k \in StmtsOf({"UPDATE"}, 2) : ~stmts[k].raised /\ stmts[k].rowcount = 0
    /\ result.deleted_count = 1
    /\ result.updated_count = 0
    /\ HasError(2, "general", MsgActualizar)

\* C12: the errors validate_and_process_client_data returns are the
\* validation errors in batch order followed by the execution errors in batch
\* order, and the fila of every entry is the 1-based position in the batch of
\* the row the entry is about.
C12_ValidationErrorsThenExecutionErrors ==
    ProcessReturned =>
        \E n \in 0..Len(result.errors) :
            /\ \A k \in 1..Len(result.errors) :
                  /\ result.errors[k].fila \in 1..Len(data)
                  /\ k <= n =>
                       /\ result.errors[k].errors =
                            ValidationErrorsOf(result.errors[k].fila)
                       /\ StmtsOf(Mutating, result.errors[k].fila) = {}
                  /\ k > n =>
                       /\ DOMAIN result.errors[k].errors = {"general"}
                       /\ \E j \in StmtsOf(Mutating, result.errors[k].fila) :
                             /\ stmts[j].raised \/ stmts[j].rowcount = 0
                             /\ stmts[j].codigo =
                                  Get(data[result.errors[k].fila],
                                      "codigo_identificacion")
            /\ \A k, l \in 1..Len(result.errors) :
                  (k < l /\ (l <= n \/ k > n))
                  => result.errors[k].fila < result.errors[l].fila

\* the execution error of row 1 comes after the validation error of row 2
C12_Witness ==
    /\ ProcessReturned
    /\ Len(result.errors) = 2
    /\ result.errors[1].fila = 2
    /\ result.errors[2].fila = 1
    /\ DOMAIN result.errors[2].errors = {"general"}

\* C13: in validate_and_process_client_data a row with a validation error is
\* never executed: no INSERT, UPDATE or DELETE is issued for it, a batch of
\* rejected rows leaves the store as it was, and the row's validation error
\* is in the returned errors.
C13_RejectedRowIsNotExecuted ==
    ProcessDone =>
        /\ \A i \in 1..Len(data) :
              ValidationErrorsOf(i) # NoErrors
              => /\ StmtsOf(Mutating, i) = {}
                 /\ result.status = "returned" =>
                      \E k \in 1..Len(result.errors) :
                          result.errors[k] = ErrorEntry(i, ValidationErrorsOf(i))
        /\ (\A i \in 1..Len(data) : ValidationErrorsOf(i) # NoErrors)
              => store = storeBefore

\* a rejected Add row ahead of a Delete row that is executed
C13_Witness ==
    /\ ProcessReturned
    /\ Len(data) = 2
    /\ IsAction(data[1], A)
    /\ ValidationErrorsOf(1) # NoErrors
    /\ StmtsOf(Mutating, 1) = {}
    /\ 2 \in SucceededFilas({"DELETE"})
    /\ Filas(result.errors) = {1}

\* the body fails the structural check of the two POST handlers
StructurallyInvalid ==
    \/ body.kind # "list"
    \/ \E i \in 1..Len(body.rows) : ~HasValidAction(body.rows[i])

AnySucceeded ==
    result.inserted_count + result.updated_count + result.deleted_count > 0

\* C15: handle_client_data_post maps the batch result to the status code:
\* 200 when at least one row succeeded and the error list is empty, 207 when
\* at least one row succeeded and the error list is not empty, 400 when no
\* row succeeded and the error list is not empty.
C15_StatusCodeFollowsBatchResult ==
    (PostClientesDone /\ result.status = "returned")
    => /\ (AnySucceeded /\ result.errors = <<>>) => response.statusCode = 200
       /\ (AnySucceeded /\ result.errors # <<>>) => response.statusCode = 207
       /\ (~AnySucceeded /\ result.errors # <<>>) => response.statusCode = 400

\* C16: for a POST /clientes request handled end to end, the response
\* body's inserted_count, updated_count, deleted_count and errors are the
\* values validate_and_process_client_data computed for the batch, and a batch
\* whose rows all succeed is answered with status 200; the status is never
\* 500 when no database call failed.
C16_ResponseCarriesBatchResult ==
    (PostClientesDone /\ result.status = "returned" /\ NoStatementRaised)
    => /\ response.body.inserted_count = PyInt(result.inserted_count)
       /\ response.body.updated_count = PyInt(result.updated_count)
       /\ response.body.deleted_count = PyInt(result.deleted_count)
       /\ response.body.errors = PyList(result.errors)
       /\ (Len(data) > 0 /\ result.errors = <<>>) => response.statusCode = 200
       /\ response.statusCode # 500

\* C17: for every store and every structurally valid batch, the rows
\* validate_and_process_client_data rejects at validation are the rows
\* validate_data reports in its errors.
C17_ProcessingValidatesAsValidationPath ==
    ProcessDone =>
        Filas(validate_client_data(storeBefore, data, 0).errors)
            = Filas(validate_data(storeBefore, data, 0).errors)

PageDone == pc = "done" /\ op = "get"

\* the page parameter as get_paginated_data reads it
RawPage ==
    IF "page" \in DOMAIN query_params THEN query_params["page"].s ELSE <<"1">>

\* C18: in get_paginated_data, currentPage is 1 when the page parameter is
\* absent, is not a digit string or parses to less than 1, and is the parsed
\* integer otherwise; currentPage >= 1 and the offset bound to the data query
\* is (currentPage - 1) * limit, never negative.
C18_CurrentPageIsAtLeastOne ==
    PageDone =>
        /\ paged.status = "returned"
        /\ paged.currentPage >= 1
        /\ paged.offset = (paged.currentPage - 1) * limit
        /\ paged.offset >= 0
        /\ paged.data_params[Len(paged.data_params)] = PyInt(paged.offset)
        /\ "page" \notin DOMAIN query_params => paged.currentPage = 1
        /\ RawPage \in {<<>>, <<"a", "b", "c">>, <<"-", "3">>, <<"0">>, <<" ", "2">>}
              => paged.currentPage = 1
        /\ RawPage = <<"3">> => paged.currentPage = 3
        /\ RawPage = <<"1", "2">> => paged.currentPage = 12
        /\ (RawPage # <<>> /\ \A i \in 1..Len(RawPage) : RawPage[i] \in Digits)
              => paged.currentPage = (IF IntOf(RawPage) < 1 THEN 1 ELSE IntOf(RawPage))

\* C19: in get_paginated_data, totalPages is 1 when totalRecords is 0 and the
\* ceiling of totalRecords / limit otherwise: it is never 0, and
\* totalPages * limit >= totalRecords > (totalPages - 1) * limit whenever
\* totalRecords > 0.
C19_TotalPagesIsCeiling ==
    (PageDone /\ paged.status = "returned")
    => /\ paged.totalPages >= 1
       /\ paged.recordsPerPage = limit
       /\ paged.totalRecords = 0 => paged.totalPages = 1
       /\ paged.totalRecords > 0 =>
            /\ paged.totalPages * limit >= paged.totalRecords
            /\ paged.totalRecords > (paged.totalPages - 1) * limit

\* a last page that is not full
C19_Witness ==
    /\ PageDone
    /\ paged.status = "returned"
    /\ paged.totalRecords = 2 * limit + 1
    /\ paged.totalPages = 3

\* the filters get_paginated_data emitted for a column
FiltersOn(column) ==
    {k \in 1..Len(paged.filters) : paged.filters[k].column = column}

\* the value has a character that is not whitespace
NonBlank(value) == \E i \in 1..Len(value.s) : value.s[i] \notin Whitespace

\* C20: in get_paginated_data, each search-enabled field whose value is not
\* empty after trimming produces exactly one predicate, bound to the trimmed,
\* lower-cased value followed by % (" Juan " binds "juan%"); a value that is
\* empty or only whitespace produces no predicate and no bind parameter.
C20_SearchFilterIsTrimmedLowerPrefix ==
    (PageDone /\ paged.status = "returned")
    => /\ \A f \in {search_fields[i] : i \in 1..Len(search_fields)} :
             IF f \in DOMAIN query_params /\ NonBlank(query_params[f])
             THEN /\ Cardinality(FiltersOn(f)) = 1
                  /\ \A k \in FiltersOn(f) :
                        /\ paged.filters[k].operator = "LIKE"
                        /\ paged.filters[k].param.s[Len(paged.filters[k].param.s)] = "%"
                        /\ paged.count_params[k] = paged.filters[k].param
                        /\ paged.data_params[k] = paged.filters[k].param
                        /\ query_params[f] = Str(<<" ", "J", "u", "a", "n", " ">>)
                              => paged.filters[k].param =
                                    Str(<<"j", "u", "a", "n", "%">>)
                        /\ query_params[f] = Str(<<"a", "N">>)
                              => paged.filters[k].param = Str(<<"a", "n", "%">>)
                        /\ query_params[f] = Str(<<"3", "0", "0">>)
                              => paged.filters[k].param = Str(<<"3", "0", "0", "%">>)
             ELSE FiltersOn(f) = {}
       /\ Len(paged.count_params) = Len(paged.filters)
       /\ Len(paged.data_params) = Len(paged.filters) + 2

\* " Juan " is searched and a whitespace-only value is skipped
C20_Witness ==
    /\ PageDone
    /\ paged.status = "returned"
    /\ "primer_nombre" \in DOMAIN query_params
    /\ query_params["primer_nombre"] = Str(<<" ", "J", "u", "a", "n", " ">>)
    /\ "numero_celular" \in DOMAIN query_params
    /\ query_params["numero_celular"] = Str(<<>>)
    /\ "id_cliente" \notin DOMAIN query_params
    /\ paged.count_params = <<Str(<<"j", "u", "a", "n", "%">>)>>

----------------------------------------------------------------------------
(* The queries of get_paginated_data *)

\* a GET for which get_paginated_data returned
PageReturned ==
    /\ pc = "done"
    /\ op \in {"get", "get_historial"}
    /\ paged.status = "returned"

\* the descriptor the request was served with
Descriptor == IF op = "get_historial" THEN historial_transacciones ELSE clientes

SearchFieldsOf(resource_config) ==
    {resource_config.search_fields[i] : i \in 1..Len(resource_config.search_fields)}

TokensOf(sql) == {sql[i] : i \in 1..Len(sql)}

\* the words of the two queries that are neither a table nor a column
SqlWords ==
    { "SELECT", "COUNT(*)", "*", "FROM", ".", "WHERE", "AND", "LOWER(", "::text)",
      "LIKE", "=", "%s", "ORDER BY", "ASC", "LIMIT", "OFFSET" }

\* C21: in get_paginated_data, a key of the query that is neither one of the
\* descriptor's search_fields nor id_cliente produces no predicate and no bind
\* parameter and is not in the text of either query: every column of the
\* WHERE clause is a search field of the descriptor or the literal id_cliente,
\* and the text holds placeholders where the values go.
C21_OnlyDescriptorColumnsAreFiltered ==
    PageReturned =>
        /\ \A k \in 1..Len(paged.filters) :
              paged.filters[k].column \in SearchFieldsOf(Descriptor) \cup {"id_cliente"}
        /\ \A key \in DOMAIN query_params
                         \ (SearchFieldsOf(Descriptor) \cup {"id_cliente"}) :
              /\ FiltersOn(key) = {}
              /\ key \notin TokensOf(paged.count_sql)
              /\ key \notin TokensOf(paged.select_sql)
        /\ TokensOf(paged.count_sql) \cup TokensOf(paged.select_sql)
              \subseteq SqlWords \cup SearchFieldsOf(Descriptor)
                          \cup {Descriptor.db_schema, Descriptor.db_table,
                                Descriptor.columns[1], "id_cliente"}
        /\ Len(paged.count_params) = Len(paged.filters)
        /\ Len(paged.count_params)
              <= Cardinality(DOMAIN query_params
                               \cap (SearchFieldsOf(Descriptor) \cup {"id_cliente"}))

\* a history is searched by card number, and the query also names a field
\* that only the clientes descriptor searches
C21_Witness ==
    /\ PageReturned
    /\ op = "get_historial"
    /\ "primer_nombre" \in DOMAIN query_params
    /\ "numero_tarjeta" \in DOMAIN query_params
    /\ Len(paged.filters) = 2
    /\ paged.filters[1].column = "numero_tarjeta"

\* the place of a key in a sequence of keys
Position(keys, key) == CHOOSE i \in 1..Len(keys) : keys[i] = key

\* the predicates that come from search fields
SearchFilterIndexes ==
    {k \in 1..Len(paged.filters) : paged.filters[k].operator = "LIKE"}

\* the columns of the predicates in the text of a query, in the order of the text
PredicateColumns(sql) ==
    SelectSeq(sql, LAMBDA t : t \in SearchFieldsOf(Descriptor) \cup {"id_cliente"})

\* the value a predicate has to be bound to
BoundValue(filter) ==
    IF filter.operator = "LIKE"
    THEN Str(lower(Strip(query_params[filter.column].s)) \o <<"%">>)
    ELSE query_params["id_cliente"]

\* C22 as stated: the predicates of get_paginated_data come in the order in
\* which the caller sent the search fields.
C22_PredicatesFollowCallerOrder ==
    PageReturned =>
        \A i, j \in SearchFilterIndexes :
            i < j => Position(event.order, paged.filters[i].column)
                       < Position(event.order, paged.filters[j].column)

\* C22: in get_paginated_data, the predicates of the search fields come in
\* the order of the descriptor's search_fields, whatever the order in which
\* the caller sent them, the predicate on id_cliente comes last, and the
\* i-th bind parameter is the value of the i-th predicate of the text.
C22_PredicatesFollowDescriptorOrder ==
    PageReturned =>
        /\ \A i, j \in SearchFilterIndexes :
              i < j => Position(Descriptor.search_fields, paged.filters[i].column)
                         < Position(Descriptor.search_fields, paged.filters[j].column)
        /\ \A k \in 1..Len(paged.filters) :
              /\ paged.filters[k].operator = "=" => k = Len(paged.filters)
              /\ paged.count_params[k] = BoundValue(paged.filters[k])
              /\ paged.data_params[k] = BoundValue(paged.filters[k])
        /\ PredicateColumns(paged.count_sql)
              = [k \in 1..Len(paged.filters) |-> paged.filters[k].column]
        /\ Len(SelectSeq(paged.count_sql, LAMBDA t : t = "%s")) = Len(paged.count_params)

\* the caller sent numero_celular ahead of primer_nombre
C22_Witness ==
    /\ PageReturned
    /\ op = "get"
    /\ Len(paged.filters) = 3
    /\ paged.filters[1].column = "primer_nombre"
    /\ paged.filters[2].column = "numero_celular"
    /\ paged.filters[3].column = "id_cliente"
    /\ Position(event.order, "numero_celular") < Position(event.order, "primer_nombre")
    /\ Position(event.order, "id_cliente") < Position(event.order, "numero_celular")

\* C23: in get_paginated_data, whenever id_cliente is a key of the query one
\* predicate id_cliente = value is emitted, bound to that value in both
\* queries, whatever the other filters; handle_transaction_history puts the
\* id_cliente of the path in place of any id_cliente of the query string, so
\* both queries of a history are restricted to the client of the path.
C23_IdClienteIsAlwaysFiltered ==
    PageReturned =>
        /\ "id_cliente" \in DOMAIN query_params =>
              /\ Cardinality(FiltersOn("id_cliente")) = 1
              /\ \A k \in FiltersOn("id_cliente") :
                    /\ paged.filters[k].operator = "="
                    /\ paged.filters[k].param = query_params["id_cliente"]
                    /\ paged.count_params[k] = query_params["id_cliente"]
                    /\ paged.data_params[k] = query_params["id_cliente"]
              /\ <<"id_cliente", "=", "%s">>
                    = SubSeq(paged.count_sql, Len(paged.count_sql) - 2,
                             Len(paged.count_sql))
        /\ "id_cliente" \notin DOMAIN query_params => FiltersOn("id_cliente") = {}
        /\ op = "get_historial" =>
              /\ "id_cliente" \in DOMAIN query_params
              /\ query_params["id_cliente"] = event.id_cliente
              /\ \A k \in FiltersOn("id_cliente") :
                    paged.filters[k].param = event.id_cliente
              /\ \A k \in 1..Len(paged.count_params) :
                    ("id_cliente" \in DOMAIN event.queryStringParameters
                       /\ event.queryStringParameters["id_cliente"] # event.id_cliente)
                    => paged.count_params[k] # event.queryStringParameters["id_cliente"]
              /\ response.statusCode = (IF paged.totalRecords = 0 THEN 404 ELSE 200)

\* a history is asked for one client with the id of another in the query string
C23_Witness ==
    /\ PageReturned
    /\ op = "get_historial"
    /\ "id_cliente" \in DOMAIN event.queryStringParameters
    /\ event.queryStringParameters["id_cliente"] # event.id_cliente
    /\ FiltersOn("numero_tarjeta") # {}
    /\ paged.totalRecords > 0
    /\ response.statusCode = 200

\* the text of a query between the table and ORDER BY
WherePart(sql, tail) == SubSeq(sql, 7, Len(sql) - tail)

\* C24: in get_paginated_data, neither query has a WHERE clause when no
\* predicate is emitted; the count query and the data query always carry the
\* same predicates with the same bind parameters in the same order, and the
\* data query binds after them the limit and then the offset
\* (currentPage - 1) * limit.
C24_CountAndDataQueriesAgree ==
    PageReturned =>
        /\ paged.filters = <<>> =>
              /\ "WHERE" \notin TokensOf(paged.count_sql)
              /\ "WHERE" \notin TokensOf(paged.select_sql)
              /\ paged.count_params = <<>>
              /\ Len(paged.count_sql) = 6
        /\ paged.filters # <<>> =>
              /\ paged.count_sql[7] = "WHERE"
              /\ paged.select_sql[7] = "WHERE"
        /\ WherePart(paged.count_sql, 0) = WherePart(paged.select_sql, 7)
        /\ SubSeq(paged.select_sql, Len(paged.select_sql) - 6, Len(paged.select_sql))
              = <<"ORDER BY", Descriptor.columns[1], "ASC", "LIMIT", "%s",
                  "OFFSET", "%s">>
        /\ SubSeq(paged.count_sql, 1, 6)
              = <<"SELECT", "COUNT(*)", "FROM", Descriptor.db_schema, ".",
                  Descriptor.db_table>>
        /\ SubSeq(paged.select_sql, 1, 6)
              = <<"SELECT", "*", "FROM", Descriptor.db_schema, ".",
                  Descriptor.db_table>>
        /\ Len(paged.data_params) = Len(paged.count_params) + 2
        /\ SubSeq(paged.data_params, 1, Len(paged.count_params)) = paged.count_params
        /\ paged.data_params[Len(paged.count_params) + 1] = PyInt(Descriptor.limit)
        /\ paged.data_params[Len(paged.count_params) + 2]
              = PyInt((paged.currentPage - 1) * Descriptor.limit)

\* the third page of a search with two predicates
C24_Witness ==
    /\ PageReturned
    /\ op = "get"
    /\ Len(paged.filters) = 2
    /\ paged.currentPage = 3
    /\ paged.totalRecords = 2 * limit + 1
    /\ paged.data_params[3] = PyInt(limit)
    /\ paged.data_params[4] = PyInt(2 * limit)

----------------------------------------------------------------------------
(* The statements of a batch and the checks of one row *)

\* the statement a row of that action is executed with
MutationOf(action) ==
    CASE action = A -> "INSERT" [] action = M -> "UPDATE" [] action = E -> "DELETE"

\* C25: for every batch processed by validate_and_process_client_data, each
\* row causes at most one existence-check statement and at most one mutating
\* statement; once validation went through, a row that passed it causes
\* exactly one mutating statement, the one of its action, and a rejected row
\* causes none.
C25_AtMostOneCheckAndOneMutationPerRow ==
    ProcessDone =>
        /\ \A k \in 1..Len(stmts) : stmts[k].fila \in 1..Len(data)
        /\ \A i \in 1..Len(data) :
              /\ Cardinality(StmtsOf({"SELECT"}, i)) <= 1
              /\ Cardinality(StmtsOf(Mutating, i)) <= 1
              /\ result.status = "returned" =>
                    IF i \in ExecutableFilas
                    THEN /\ Cardinality(StmtsOf(Mutating, i)) = 1
                         /\ \A k \in StmtsOf(Mutating, i) :
                               stmts[k].kind = MutationOf(data[i]["accion"])
                    ELSE StmtsOf(Mutating, i) = {}

\* a Modify row is checked and its UPDATE fails, the row after it is rejected
C25_Witness ==
    /\ ProcessReturned
    /\ Len(data) = 2
    /\ IsAction(data[1], M)
    /\ Cardinality(StmtsOf({"SELECT"}, 1)) = 1
    /\ Cardinality(StmtsOf({"UPDATE"}, 1)) = 1
    /\ 1 \in FailedFilas
    /\ 2 \notin ExecutableFilas
    /\ StmtsOf(Mutating, 2) = {}

ValidateDone == pc = "done" /\ op = "validate"

\* C26: in validate_data, a row whose accion is absent or not in {A, E, M}
\* gets exactly one error entry, whose only key is accion, and no later
\* check runs for it: it gets no other error and no existence query.
C26_InvalidActionRowGetsOnlyActionError ==
    ValidateDone =>
        \A i \in 1..Len(data) :
            ~HasValidAction(data[i])
            => /\ StmtsOf({"SELECT"}, i) = {}
               /\ result.status = "returned" =>
                    /\ Cardinality(EntriesOf(i)) = 1
                    /\ \A e \in EntriesOf(i) :
                          /\ DOMAIN result.errors[e].errors = {"accion"}
                          /\ result.errors[e].errors["accion"] = MsgAccion

\* a row with an unknown action and nothing but an identifier, ahead of a
\* row that is checked against the table
C26_Witness ==
    /\ ValidateReturned
    /\ Len(data) = 2
    /\ "accion" \in DOMAIN data[1]
    /\ ~HasValidAction(data[1])
    /\ "primer_nombre" \notin DOMAIN data[1]
    /\ Cardinality(EntriesOf(1)) = 1
    /\ HasValidAction(data[2])
    /\ StmtsOf({"SELECT"}, 2) # {}

\* the validators of one row were applied to the_item
ItemChecked == pc = "done" /\ op = "item"

\* the field is missing, null, or an empty or whitespace-only string
Blank(fields, f) ==
    \/ f \notin DOMAIN fields
    \/ fields[f] = Null
    \/ /\ fields[f].t = "str"
       /\ \A i \in 1..Len(fields[f].s) : fields[f].s[i] \in Whitespace

\* C27: validate_item_fields reports one error per required field whose
\* value is missing, null, or an empty or whitespace-only string; the
\* required set is the descriptor's required_fields for Add and only
\* codigo_identificacion for Modify and Delete, so a Modify or Delete row
\* with a non-empty codigo_identificacion has no required-field error.
C27_RequiredFieldsByAction ==
    ItemChecked =>
        /\ DOMAIN checked.validate_item_fields
              = {f \in (IF the_item["accion"] = A THEN required_fields
                        ELSE {"codigo_identificacion"}) : Blank(the_item, f)}
        /\ \A f \in DOMAIN checked.validate_item_fields :
              checked.validate_item_fields[f] = MsgRequerido
        /\ (the_item["accion"] \in {M, E} /\ ~Blank(the_item, "codigo_identificacion"))
              => checked.validate_item_fields = NoErrors

\* a Delete row that carries its identifier and nothing else
C27_Witness ==
    /\ ItemChecked
    /\ the_item = [accion |-> E, codigo_identificacion |-> COD1]
    /\ checked.validate_item_fields = NoErrors

\* a string of two decimal digits whose value is between 1 and 20
TwoDigitsOneToTwenty(s) ==
    /\ Len(s) = 2
    /\ s[1] \in Digits
    /\ s[2] \in Digits
    /\ 1 <= 10 * DigitVal(s[1]) + DigitVal(s[2])
    /\ 10 * DigitVal(s[1]) + DigitVal(s[2]) <= 20

\* C28: validate_tipo_identificacion reports a tipo_identificacion error
\* exactly when the action is Add or Modify, the field is present and not
\* empty, and the value is not a string of two digits whose value is between
\* 1 and 20; for Delete, or when the field is absent, it reports nothing.
C28_TipoIdentificacionIsTwoDigitsOneToTwenty ==
    ItemChecked =>
        /\ checked.validate_tipo_identificacion.exc = ""
        /\ ("tipo_identificacion" \in DOMAIN checked.validate_tipo_identificacion.errors)
              <=> (/\ the_item["accion"] \in {A, M}
                   /\ "tipo_identificacion" \in DOMAIN the_item
                   /\ the_item["tipo_identificacion"] \notin {Null, Str(<<>>)}
                   /\ ~TwoDigitsOneToTwenty(the_item["tipo_identificacion"].s))

\* the keys the checks of validate_items report for a row, each taken alone
ViolatedKeys(i) ==
    DOMAIN validate_item_fields(data[i], data[i]["accion"])
      \cup DOMAIN validate_tipo_identificacion(data[i], data[i]["accion"]).errors
      \cup DOMAIN validate_fecha_afiliacion(data[i], data[i]["accion"])
      \cup DOMAIN validate_database_operations(storeBefore, data, data[i],
                                               data[i]["accion"])

\* C29: in validate_items, every check runs for a row with a valid action
\* and the errors accumulate: the row has one error entry when any check
\* fails, with a key for every field that fails the required-field check, a
\* format check or the database check; an earlier failure never hides the
\* key of a later one.
C29_ErrorsOfAllChecksAccumulate ==
    ValidateReturned =>
        \A i \in 1..Len(data) :
            HasValidAction(data[i])
            => /\ Cardinality(EntriesOf(i)) = (IF ViolatedKeys(i) = {} THEN 0 ELSE 1)
               /\ \A e \in EntriesOf(i) :
                     DOMAIN result.errors[e].errors = ViolatedKeys(i)

\* an Add row without primer_apellido, with tipo_identificacion 21 and an
\* identifier that is already stored
C29_Witness ==
    /\ ValidateReturned
    /\ \E i \in 1..Len(data) :
         /\ IsAction(data[i], A)
         /\ HasError(i, "primer_apellido", MsgRequerido)
         /\ HasError(i, "tipo_identificacion", MsgTipo)
         /\ HasError(i, "codigo_identificacion", MsgYaExiste)

\* another row with a valid action carries the identifier of row i
SharesCodigo(i) ==
    \E j \in (1..Len(data)) \ {i} :
        /\ HasValidAction(data[j])
        /\ Get(data[j], "codigo_identificacion") = data[i]["codigo_identificacion"]

\* C30: in validate_data, an Add row whose identifier is carried by another
\* row of the batch tagged A, M or E, before or after it, gets the
\* duplicated-in-the-request error and no existence query is issued for it;
\* a row whose action is not valid does not count as an occurrence.
C30_DuplicateInRequestSkipsExistenceQuery ==
    ValidateDone =>
        \A i \in 1..Len(data) :
            (/\ IsAction(data[i], A)
             /\ "codigo_identificacion" \in DOMAIN data[i]
             /\ Truthy(data[i]["codigo_identificacion"]))
            => IF SharesCodigo(i)
               THEN /\ StmtsOf({"SELECT"}, i) = {}
                    /\ result.status = "returned"
                          => HasError(i, "codigo_identificacion", MsgDuplicado)
               ELSE result.status = "returned"
                      => /\ ~HasError(i, "codigo_identificacion", MsgDuplicado)
                         /\ Cardinality(StmtsOf({"SELECT"}, i)) = 1

\* a complete Add row ahead of a Modify row for the same identifier
C30_Witness ==
    /\ ValidateReturned
    /\ Len(data) = 2
    /\ IsCompleteAdd(data[1])
    /\ IsAction(data[2], M)
    /\ data[2]["codigo_identificacion"] = data[1]["codigo_identificacion"]
    /\ HasError(1, "codigo_identificacion", MsgDuplicado)
    /\ StmtsOf({"SELECT"}, 1) = {}
    /\ StmtsOf({"SELECT"}, 2) # {}

\* the messages validate_database_operations can leave on the identifier
ExistenceMsgs == {MsgNoExiste, MsgYaExiste, MsgDuplicado}

\* C31: in validate_data, a Modify or Delete row whose identifier has zero
\* matches in the store gets the codigo_identificacion error "no existe", and
\* an Add row not flagged as duplicated whose identifier has one or more
\* matches gets "ya existe"; a Modify/Delete row with a match, and an
\* unduplicated Add row without a match, get no codigo_identificacion error
\* from this check.
C31_ExistenceErrorsFollowTheStore ==
    ValidateReturned =>
        \A i \in 1..Len(data) :
            "codigo_identificacion" \in DOMAIN data[i] =>
                LET matches == MatchCount(storeBefore, data[i]["codigo_identificacion"])
                IN /\ (IsAction(data[i], M) \/ IsAction(data[i], E)) =>
                        IF matches = 0
                        THEN HasError(i, "codigo_identificacion", MsgNoExiste)
                        ELSE \A msg \in ExistenceMsgs :
                                ~HasError(i, "codigo_identificacion", msg)
                   /\ (/\ IsAction(data[i], A)
                       /\ ~HasError(i, "codigo_identificacion", MsgDuplicado)) =>
                        IF matches > 0
                        THEN HasError(i, "codigo_identificacion", MsgYaExiste)
                        ELSE \A msg \in ExistenceMsgs :
                                ~HasError(i, "codigo_identificacion", msg)

\* a Delete of an identifier that is not stored beside an Add of one that is
C31_Witness ==
    /\ ValidateReturned
    /\ Len(data) = 2
    /\ IsAction(data[1], E)
    /\ IsAction(data[2], A)
    /\ HasCodigo(data[1])
    /\ HasCodigo(data[2])
    /\ MatchCount(storeBefore, data[1]["codigo_identificacion"]) = 0
    /\ MatchCount(storeBefore, data[2]["codigo_identificacion"]) > 0
    /\ HasError(1, "codigo_identificacion", MsgNoExiste)
    /\ HasError(2, "codigo_identificacion", MsgYaExiste)

\* the only row of the batch whose statement changed the table is Modify row i
OnlyModified(i) ==
    /\ ProcessReturned
    /\ i \in 1..Len(data)
    /\ IsAction(data[i], M)
    /\ SucceededFilas(Mutating) = {i}

\* what Modify row `item` is to leave of a stored row
Modified(stored, item) ==
    IF stored["codigo_identificacion"] = item["codigo_identificacion"]
    THEN [col \in DOMAIN stored |->
            IF col \in DOMAIN item /\ col \in ColumnSet
                                   /\ col # "codigo_identificacion"
            THEN item[col] ELSE stored[col]]
    ELSE stored

CopiesIn(db, stored) == IF stored \in DOMAIN db THEN db[stored] ELSE 0

\* C32: a successful Modify changes, on the stored rows addressed by
\* codigo_identificacion, exactly the descriptor columns present in the
\* input row: omitted columns keep their stored value, codigo_identificacion
\* is never changed, keys that are not descriptor columns are ignored, and
\* every other stored row is unchanged.
C32_ModifySetsOnlySuppliedColumns ==
    \A i \in 1..MaxBatch + 1 :
        OnlyModified(i) =>
            /\ RowCount(store) = RowCount(storeBefore)
            /\ \A x \in DOMAIN store \cup DOMAIN storeBefore :
                   /\ DOMAIN x = ColumnSet
                   /\ CopiesIn(store, x) =
                        SumCopies(storeBefore,
                                  {stored \in DOMAIN storeBefore :
                                       Modified(stored, data[i]) = x})

\* a Modify that supplies primer_nombre alone: the stored row takes the new
\* name and keeps its surname, beside a stored row of another identifier
C32_Witness ==
    /\ OnlyModified(1)
    /\ "primer_nombre" \in DOMAIN data[1]
    /\ "primer_apellido" \notin DOMAIN data[1]
    /\ RowCount(storeBefore) = 2
    /\ \E stored \in DOMAIN storeBefore, now \in DOMAIN store :
         /\ stored \notin DOMAIN store
         /\ now["codigo_identificacion"] = data[1]["codigo_identificacion"]
         /\ now["primer_nombre"] = data[1]["primer_nombre"]
         /\ now["primer_apellido"] = stored["primer_apellido"]
         /\ now["primer_apellido"] # Null
    /\ \E other \in DOMAIN storeBefore \cap DOMAIN store :
         other["codigo_identificacion"] # data[1]["codigo_identificacion"]

\* C33: validate_data returns (valid_count, errors) where errors holds at
\* most one entry per row, every entry names a row of the batch, valid_count
\* = len(batch) - len(errors) is the number of rows with no entry, and
\* 0 <= valid_count <= len(batch).
C33_ValidCountIsRowsWithoutError ==
    ValidateReturned =>
        /\ Filas(result.errors) \subseteq 1..Len(data)
        /\ \A i \in 1..Len(data) : Cardinality(EntriesOf(i)) <= 1
        /\ result.valid_count = Len(data) - Len(result.errors)
        /\ result.valid_count =
              Cardinality({i \in 1..Len(data) : EntriesOf(i) = {}})
        /\ result.valid_count \in 0..Len(data)

\* a row rejected at the action check, with its one entry, ahead of a valid
\* row: one row of two is valid
C33_Witness ==
    /\ ValidateReturned
    /\ Len(data) = 2
    /\ HasError(1, "accion", MsgAccion)
    /\ Cardinality(EntriesOf(1)) = 1
    /\ EntriesOf(2) = {}
    /\ result.valid_count = 1

\* a call of validate_data, direct or through POST /clientes/validaciones, ended
ValidationPathDone == pc = "done" /\ op \in {"validate", "post_validaciones"}

\* C34: the validation path never changes the store: it issues only
\* existence-count queries, no INSERT, UPDATE or DELETE,
\* handle_validation_post never calls commit, and the store after the call
\* equals the store before it for every batch.
C34_ValidationLeavesTheStore ==
    ValidationPathDone =>
        /\ store = storeBefore
        /\ \A k \in 1..Len(stmts) : stmts[k].kind = "SELECT"
        /\ \A k \in 1..Len(conn) : conn[k] # "commit"

\* a POST /clientes/validaciones answered 200 for two valid rows, each
\* checked against a table that holds rows
C34_Witness ==
    /\ PostValidacionesDone
    /\ response.statusCode = 200
    /\ Len(data) = 2
    /\ result.errors = <<>>
    /\ Len(stmts) = 2
    /\ RowCount(store) > 0
    /\ Len(conn) > 0

\* a call of validate_and_process_client_data, direct or through POST
\* /clientes, ended
ProcessingPathDone == pc = "done" /\ op \in {"process", "post_clientes"}

\* C35: in validate_and_process_client_data, every existence-check statement
\* of the batch is issued before the first mutating statement; the rows are
\* validated against the store as it was when the batch arrived, and only
\* then are the surviving rows executed, in batch order.
C35_ValidationPrecedesExecution ==
    ProcessingPathDone =>
        /\ \A j, k \in 1..Len(stmts) :
               /\ (stmts[j].kind = "SELECT" /\ stmts[k].kind \in Mutating) => j < k
               /\ (j < k /\ (stmts[j].kind = "SELECT" <=> stmts[k].kind = "SELECT"))
                     => stmts[j].fila < stmts[k].fila
        /\ result.status = "returned" =>
               \A i \in 1..Len(data) :
                   ChecksExistence(data[i], Get(data[i], "accion")) =>
                       (HasError(i, "codigo_identificacion", MsgNoExiste)
                          <=> MatchCount(storeBefore,
                                         data[i]["codigo_identificacion"]) = 0)

\* an Add of an identifier that is not stored ahead of a Modify of the same
\* identifier: the Modify is rejected although the Add was executed
C35_Witness ==
    /\ ProcessReturned
    /\ Len(data) = 2
    /\ IsAction(data[1], A)
    /\ IsAction(data[2], M)
    /\ data[2]["codigo_identificacion"] = data[1]["codigo_identificacion"]
    /\ 1 \in SucceededFilas({"INSERT"})
    /\ HasError(2, "codigo_identificacion", MsgNoExiste)
    /\ Len(stmts) = 2
    /\ stmts[1].kind = "SELECT"
    /\ stmts[2].kind = "INSERT"

\* row i is the first Delete row of an identifier the store holds, row j a
\* later Delete or Modify row of that identifier, no Add row after row i
\* brings the identifier back, and the database failed neither an existence
\* query nor the DELETE of row i
DeletedThenAddressed(i, j) ==
    /\ ProcessDone
    /\ i < j
    /\ IsAction(data[i], E)
    /\ IsAction(data[j], E) \/ IsAction(data[j], M)
    /\ HasCodigo(data[i])
    /\ Get(data[j], "codigo_identificacion") = data[i]["codigo_identificacion"]
    /\ MatchCount(storeBefore, data[i]["codigo_identificacion"]) > 0
    /\ \A k \in 1..Len(data) :
          (k < i /\ IsAction(data[k], E)) \/ (k > i /\ IsAction(data[k], A))
            => Get(data[k], "codigo_identificacion")
                   # data[i]["codigo_identificacion"]
    /\ \A k \in 1..Len(stmts) :
          stmts[k].raised => stmts[k].kind # "SELECT" /\ stmts[k].fila # i

RequestDone ==
    /\ pc = "done"
    /\ op \in {"post_clientes", "post_validaciones", "patch_contactabilidad",
               "no_cursor"}

\* the positions of a call in the log of the connection
CallsOf(call) == {k \in 1..Len(conn) : conn[k] = call}

\* C37: in handle_main_request, once conexion_bd has returned a connection,
\* the cursor and the connection are each closed exactly once before the
\* response is returned, on every path: normal return, ValueError (status
\* 400, no rollback), and any other exception (rollback is called, then
\* status 500); no exception escapes handle_main_request.
C37_CursorAndConnectionClosedOnEveryPath ==
    RequestDone =>
        /\ response.statusCode # 0
        /\ CallsOf("cursor.close") = {Len(conn) - 1}
        /\ CallsOf("conn.close") = {Len(conn)}
        /\ response.statusCode = 400 => CallsOf("rollback") = {}
        /\ response.statusCode = 500 => CallsOf("rollback") = {Len(conn) - 2}

\* C38: for POST /clientes, commit is called at most once per request and
\* only after every row of the batch has been validated and executed: it is
\* the first call on the connection, made when
\* validate_and_process_client_data has returned, every row then having an
\* error entry or a statement that changed the table; it is never called
\* when the structural check fails or the call raises, and POST
\* /clientes/validaciones never calls it.
C38_CommitOnceAfterTheBatch ==
    /\ PostClientesDone =>
          /\ CallsOf("commit") \subseteq {1}
          /\ CallsOf("commit") # {} <=> result.status = "returned"
          /\ result.status = "returned" =>
                /\ StructuralError(body) = ""
                /\ \A i \in 1..Len(data) :
                       EntriesOf(i) # {} \/ i \in SucceededFilas(Mutating)
          /\ StructuralError(body) # "" => stmts = <<>> /\ CallsOf("commit") = {}
    /\ PostValidacionesDone => CallsOf("commit") = {}

\* a POST /clientes of two rows, one executed and one rejected, committed once
C38_Witness ==
    /\ PostClientesDone
    /\ Len(data) = 2
    /\ CallsOf("commit") = {1}
    /\ SucceededFilas(Mutating) = {1}
    /\ EntriesOf(2) # {}
    /\ store # storeBefore

\* C39: when a POST /clientes request is answered with status 500, none of
\* the row changes of that request has been committed: on the path to a 500
\* rollback is called and no commit preceded it, so committed changes are
\* always reported to the caller with their counts (status 200 or 207).
C39_NothingCommittedBehindA500 ==
    PostClientesDone =>
        /\ response.statusCode = 500 =>
              /\ CallsOf("rollback") # {}
              /\ CallsOf("commit") = {}
              /\ store = storeBefore
        /\ store # storeBefore =>
              /\ response.statusCode \in {200, 207}
              /\ response.body.inserted_count = PyInt(result.inserted_count)
              /\ response.body.updated_count = PyInt(result.updated_count)
              /\ response.body.deleted_count = PyInt(result.deleted_count)

PatchDone == pc = "done" /\ op = "patch_contactabilidad"

\* the PATCH carried an id_cliente that is a UUID and a non-empty object
\* whose keys are updatable fields and whose values are booleans
ValidPatch ==
    /\ PatchDone
    /\ event.id_cliente \in PathIds
    /\ body.kind = "object"
    /\ body.rows # <<>>
    /\ \A k \in 1..Len(body.rows) :
          /\ body.rows[k].key \in {"requerido_correo", "requerido_notificacion",
                                    "requerido_celular"}
          /\ body.rows[k].value.t = "bool"

\* C40: for PATCH /contactabilidad/{id_cliente}/requerido with a valid UUID
\* and a valid body, the update is committed if and only if it affected at
\* least one row (status 200); when it affected zero rows rollback is called
\* instead of commit and the status is 404; commit and rollback are never
\* both called for one request.
C40_PatchCommitsIffRowsAffected ==
    /\ ValidPatch =>
          /\ Len(stmts) = 1
          /\ CallsOf("commit") # {} <=> stmts[1].rowcount > 0
          /\ CallsOf("commit") # {} <=> response.statusCode = 200
          /\ (~stmts[1].raised /\ stmts[1].rowcount = 0) =>
                /\ CallsOf("rollback") = {1}
                /\ response.statusCode = 404
    /\ PatchDone =>
          /\ CallsOf("commit") = {} \/ CallsOf("rollback") = {}
          /\ ~ValidPatch => stmts = <<>> /\ CallsOf("commit") = {}

\* a valid PATCH of two fields that affected no row: rolled back, 404
C40_Witness ==
    /\ ValidPatch
    /\ Len(body.rows) = 2
    /\ ~stmts[1].raised
    /\ stmts[1].rowcount = 0
    /\ conn[1] = "rollback"
    /\ response.statusCode = 404

====
